---- MODULE Spec2Model ----
(***************************************************************************)
(* Construction-progress dashboards: the stored reports and work items,    *)
(* the progress configuration (file and in-process cache), the PDF         *)
(* ingestion steps, and the computations of the dashboard routes           *)
(* (apartment detail, project stats, apartments list, project timeline).   *)
(***************************************************************************)
EXTENDS Integers, Sequences, FiniteSets, TLC

VARIABLES apartments, reports, configFile, cachedConfig,
          uploads, snapshots, pdfDir, nextReportId,
          argument, result, processing

\* the state of the upload route: the requests in flight, the snapshot
\* rows, the files of data/pdfs, the next generated report id
uploadVars == <<uploads, snapshots, pdfDir, nextReportId>>

\* a call of a pure function of the program: its argument, and its result
\* once the call has returned; and the processPdf call of the ingestion
\* script that is under way
callVars == <<argument, result, processing>>

vars == <<apartments, reports, configFile, cachedConfig, uploadVars, callVars>>

\* the call has not returned yet
NoResult == [returned |-> FALSE]

\* null (a missing notes string, the apartmentId of a development item,
\* an empty cache)
NULL == "<null>"

\* no data/progress-config.json on disk
NoFile == [exists |-> FALSE]

\* cachedConfig = null
NullConfig == [cached |-> FALSE]

(***************************************************************************)
(* Bounds of the model                                                     *)
(***************************************************************************)
\* reports ingested, and work items per report, when one logical item is
\* followed through every status (SpecItem)
MaxReports == 3
MaxItems == 1
\* reports ingested, and work items per report, when several scopes and
\* categories are stored (Spec)
MaxScopeReports == 2
MaxScopeItems == 2

(***************************************************************************)
(* status-mapper: statuses, keyword scans, effective status                *)
(***************************************************************************)
WorkStatus ==
    {"COMPLETED", "COMPLETED_OK", "NOT_OK", "DEFECT",
     "IN_PROGRESS", "HANDLED", "PENDING", "NOT_STARTED"}

\* hebrewStatusMap, in insertion order (the partial match walks it in order)
hebrewStatusMap ==
    << <<"בוצע", "COMPLETED">>,
       <<"בוצע - תקין", "COMPLETED_OK">>,
       <<"תקין", "COMPLETED_OK">>,
       <<"לא תקין", "NOT_OK">>,
       <<"ליקוי", "DEFECT">>,
       <<"בטיפול", "IN_PROGRESS">>,
       <<"טופל", "HANDLED">>,
       <<"ממתין", "PENDING">>,
       <<"לא התחיל", "NOT_STARTED">>,
       <<"בביצוע", "IN_PROGRESS">>,
       <<"הושלם", "COMPLETED">>,
       <<"נמצא ליקוי", "DEFECT">>,
       <<"תוקן", "HANDLED">>,
       <<"קיימים אי תאומים", "DEFECT">>,
       <<"קיימים אי תיאומים", "DEFECT">>,
       <<"אי תאומים", "DEFECT">>,
       <<"אי תיאומים", "DEFECT">>,
       <<"יש הערות", "DEFECT">>,
       <<"בוצע - יש הערות", "DEFECT">>,
       <<"בוצע - יש ליקויים", "DEFECT">>,
       <<"בוצע - נמצאו אי תאומים", "DEFECT">>,
       <<"בוצע - נמצאו אי תיאומים", "DEFECT">>,
       <<"נמצאו אי תאומים", "DEFECT">>,
       <<"נמצאו אי תיאומים", "DEFECT">>,
       <<"בוצע חלקי", "DEFECT">>,
       <<"בוצע חלקית", "DEFECT">>,
       <<"לטיפול", "PENDING">>,
       <<"נדרש מעקב", "PENDING">>,
       <<"נדרש ביצוע", "PENDING">>,
       <<"בוצע עם הערות", "DEFECT">> >>

\* String.prototype.includes
Includes(text, part) ==
    \E i \in 1..(Len(text) - Len(part) + 1) :
        SubSeq(text, i, i + Len(part) - 1) = part

\* String.prototype.toLowerCase, character by character
LowerChar(c) ==
    LET upper == "ABCDEFGHIJKLMNOPQRSTUVWXYZ"
        lower == "abcdefghijklmnopqrstuvwxyz"
        hit == {i \in 1..26 : SubSeq(upper, i, i) = c}
    IN  IF hit = {} THEN c ELSE LET i == CHOOSE j \in hit : TRUE
                                 IN  SubSeq(lower, i, i)

RECURSIVE toLowerCase(_)
toLowerCase(s) ==
    IF Len(s) = 0 THEN s
    ELSE LowerChar(SubSeq(s, 1, 1)) \o toLowerCase(SubSeq(s, 2, Len(s)))

\* String.prototype.trim (spaces)
RECURSIVE trim(_)
trim(s) ==
    IF Len(s) = 0 THEN s
    ELSE IF SubSeq(s, 1, 1) = " " THEN trim(SubSeq(s, 2, Len(s)))
    ELSE IF SubSeq(s, Len(s), Len(s)) = " " THEN trim(SubSeq(s, 1, Len(s) - 1))
    ELSE s

\* normalizeStatus(hebrewStatus): direct match, then the first key of the
\* table contained in the status, then IN_PROGRESS
normalizeStatus(hebrewStatus) ==
    LET trimmed == trim(hebrewStatus)
        direct == {i \in 1..Len(hebrewStatusMap) : hebrewStatusMap[i][1] = trimmed}
        partial == {i \in 1..Len(hebrewStatusMap) : Includes(trimmed, hebrewStatusMap[i][1])}
    IN  IF direct # {}
        THEN hebrewStatusMap[CHOOSE i \in direct : \A j \in direct : i >= j][2]
        ELSE IF partial # {}
        THEN hebrewStatusMap[CHOOSE i \in partial : \A j \in partial : i <= j][2]
        ELSE "IN_PROGRESS"

isPositiveStatus(status) ==
    status = "COMPLETED" \/ status = "COMPLETED_OK" \/ status = "HANDLED"

isNegativeStatus(status) ==
    status = "NOT_OK" \/ status = "DEFECT"

NEGATIVE_KEYWORDS ==
    {"אי תיאומים", "אי תאומים", "נמצאו אי", "קיימים אי", "יש הערות",
     "יש ליקויים", "ליקוי", "ליקויים", "לא תקין", "חסר", "חסרות", "חסרים",
     "חסרה", "שבור", "שבורים", "שבורה", "סדוק", "סדוקים", "פגם", "פגמים",
     "בעיה", "בעיות", "לתקן", "תיקון", "תיקונים", "לא בוצע", "לא הותקן",
     "לא הותקנו", "לא הושלם", "נזק", "נזקים", "missing", "defect", "חתוך",
     "להחליף"}

\* notes texts the ingested work items carry (besides null)
NoteTexts == {"תקין", "לא תקין"}

\* the keyword scan of hasNegativeNotes, tabulated for the notes in use
negativeScan ==
    [n \in NoteTexts |->
        \E keyword \in NEGATIVE_KEYWORDS :
            Includes(toLowerCase(n), toLowerCase(keyword))]

hasNegativeNotes(notes) ==
    IF notes = NULL \/ notes = "" THEN FALSE
    ELSE IF notes \in NoteTexts THEN negativeScan[notes]
    ELSE \E keyword \in NEGATIVE_KEYWORDS :
            Includes(toLowerCase(notes), toLowerCase(keyword))

\* getEffectiveStatus without the promotion of positive statuses
getEffectiveStatusIgnoringNotes(status, notes) == status

getEffectiveStatus(status, notes) ==
    IF isNegativeStatus(status) THEN status
    ELSE IF isPositiveStatus(status) /\ hasNegativeNotes(notes) THEN "DEFECT"
    ELSE status

(***************************************************************************)
(* progress-config: defaults, file, cache, validation                      *)
(***************************************************************************)
\* variant: defaults whose category weights sum to 110
DEFAULT_CONFIG_Overweight ==
    [categoryWeights |->
        ("ELECTRICAL" :> 22 @@ "PLUMBING" :> 10 @@ "SPRINKLERS" :> 5 @@
         "WATERPROOFING" :> 5 @@ "DRYWALL" :> 10 @@ "FLOORING" :> 15 @@
         "AC" :> 8 @@ "PAINTING" :> 10 @@ "KITCHEN" :> 10 @@ "OTHER" :> 15),
     progressThresholds |->
        [VERIFIED_NO_DEFECTS |-> 90, CATEGORY_GRADUATED |-> 90,
         ITEM_FIXED |-> 90, COMPLETED_OK_LATER |-> 75,
         COMPLETED_OK_FIRST |-> 50, HANDLED |-> 70,
         COMPLETED_WITH_ISSUES |-> 65, DEFECT_WORK_DONE |-> 55,
         IN_PROGRESS |-> 30, PENDING |-> 15, UNKNOWN |-> 15,
         NOT_STARTED |-> 5, CATEGORY_NEVER_SEEN |-> 0],
     baselineProgress |-> 30,
     maxProgress |-> 95,
     defectPenalty |-> 5,
     defaultCategoryWeight |-> 10]

DEFAULT_CONFIG ==
    [categoryWeights |->
        ("ELECTRICAL" :> 12 @@ "PLUMBING" :> 10 @@ "SPRINKLERS" :> 5 @@
         "WATERPROOFING" :> 5 @@ "DRYWALL" :> 10 @@ "FLOORING" :> 15 @@
         "AC" :> 8 @@ "PAINTING" :> 10 @@ "KITCHEN" :> 10 @@ "OTHER" :> 15),
     progressThresholds |->
        [VERIFIED_NO_DEFECTS |-> 90, CATEGORY_GRADUATED |-> 90,
         ITEM_FIXED |-> 90, COMPLETED_OK_LATER |-> 75,
         COMPLETED_OK_FIRST |-> 50, HANDLED |-> 70,
         COMPLETED_WITH_ISSUES |-> 65, DEFECT_WORK_DONE |-> 55,
         IN_PROGRESS |-> 30, PENDING |-> 15, UNKNOWN |-> 15,
         NOT_STARTED |-> 5, CATEGORY_NEVER_SEEN |-> 0],
     baselineProgress |-> 30,
     maxProgress |-> 95,
     defectPenalty |-> 5,
     defaultCategoryWeight |-> 10]

\* { ...a, ...b } on two string-keyed objects
Spread(a, b) ==
    [k \in (DOMAIN a) \cup (DOMAIN b) |-> IF k \in DOMAIN b THEN b[k] ELSE a[k]]

\* loadConfig(): the file merged over the defaults, or the defaults
loadConfig ==
    IF configFile # NoFile
    THEN [Spread(DEFAULT_CONFIG, configFile) EXCEPT
            !.categoryWeights =
                Spread(DEFAULT_CONFIG.categoryWeights, configFile.categoryWeights),
            !.progressThresholds =
                Spread(DEFAULT_CONFIG.progressThresholds, configFile.progressThresholds)]
    ELSE DEFAULT_CONFIG

\* the value getConfig() returns: the cache, loaded on first use
getConfig ==
    IF cachedConfig = NullConfig THEN loadConfig ELSE cachedConfig

getConfigSafe == getConfig

getCategoryWeights == getConfigSafe.categoryWeights

getProgressThresholds == getConfigSafe.progressThresholds

\* the legacy export: the thresholds of DEFAULT_CONFIG, fixed at import
PROGRESS_THRESHOLDS == DEFAULT_CONFIG.progressThresholds

RECURSIVE SumValues(_)
SumValues(f) ==
    IF DOMAIN f = {} THEN 0
    ELSE LET k == CHOOSE x \in DOMAIN f : TRUE
         IN  f[k] + SumValues([x \in (DOMAIN f) \ {k} |-> f[x]])

\* validateConfig(config): the errors block a save, the warnings do not
validateConfig(config) ==
    LET w == config.categoryWeights
        t == config.progressThresholds
        errors ==
            (IF SumValues(w) # 100 THEN {"weights must sum to 100"} ELSE {})
            \cup {"negative weight" : cat \in {c \in DOMAIN w : w[c] < 0}}
            \cup {"threshold out of range" :
                    key \in {k \in DOMAIN t : t[k] < 0 \/ t[k] > 100}}
            \cup (IF config.baselineProgress < 0 \/ config.baselineProgress > 100
                  THEN {"baseline out of range"} ELSE {})
            \cup (IF config.maxProgress < 0 \/ config.maxProgress > 100
                  THEN {"max out of range"} ELSE {})
            \cup (IF config.baselineProgress >= config.maxProgress
                  THEN {"baseline not below max"} ELSE {})
            \cup (IF config.defaultCategoryWeight < 0
                  THEN {"negative default weight"} ELSE {})
            \cup (IF config.defectPenalty < 0
                  THEN {"negative defect penalty"} ELSE {})
        warnings ==
            {<<"zero weight: category will not affect progress", cat>> :
                cat \in {c \in DOMAIN w : w[c] = 0}}
            \cup (IF t.VERIFIED_NO_DEFECTS <= t.COMPLETED_OK_LATER
                  THEN {<<"ordering", "VERIFIED_NO_DEFECTS">>} ELSE {})
            \cup (IF t.COMPLETED_OK_LATER <= t.COMPLETED_OK_FIRST
                  THEN {<<"ordering", "COMPLETED_OK_LATER">>} ELSE {})
            \cup (IF t.HANDLED <= t.DEFECT_WORK_DONE
                  THEN {<<"ordering", "HANDLED">>} ELSE {})
            \cup (IF t.DEFECT_WORK_DONE <= t.IN_PROGRESS
                  THEN {<<"ordering", "DEFECT_WORK_DONE">>} ELSE {})
            \cup (IF t.IN_PROGRESS <= t.PENDING
                  THEN {<<"ordering", "IN_PROGRESS">>} ELSE {})
            \cup (IF t.PENDING <= t.NOT_STARTED
                  THEN {<<"ordering", "PENDING">>} ELSE {})
    IN  [valid |-> errors = {}, errors |-> errors, warnings |-> warnings]

\* variant: the save without clearConfigCache
PostConfigWithoutClear(config) ==
    /\ IF validateConfig(config).valid
       THEN configFile' = config
       ELSE configFile' = configFile
    /\ UNCHANGED <<apartments, reports, cachedConfig>>
    /\ UNCHANGED <<uploadVars, callVars>>

\* variant: the save without the validation
PostConfigWithoutValidation(config) ==
    /\ configFile' = config
    /\ cachedConfig' = NullConfig
    /\ UNCHANGED <<apartments, reports>>
    /\ UNCHANGED <<uploadVars, callVars>>

\* POST /api/admin/config: validate, then write the file and clear the cache
\* (saveConfig followed by clearConfigCache); an invalid body changes nothing
PostConfig(config) ==
    /\ IF validateConfig(config).valid
       THEN /\ configFile' = config
            /\ cachedConfig' = NullConfig
       ELSE UNCHANGED <<configFile, cachedConfig>>
    /\ UNCHANGED <<apartments, reports>>
    /\ UNCHANGED <<uploadVars, callVars>>

\* PUT /api/admin/config: the defaults are saved and the cache is cleared
PutConfigReset ==
    /\ configFile' = DEFAULT_CONFIG
    /\ cachedConfig' = NullConfig
    /\ UNCHANGED <<apartments, reports>>
    /\ UNCHANGED <<uploadVars, callVars>>

\* the first getConfig() after a start or a clear fills the cache
GetConfig ==
    /\ cachedConfig = NullConfig
    /\ cachedConfig' = loadConfig
    /\ UNCHANGED <<apartments, reports, configFile>>
    /\ UNCHANGED <<uploadVars, callVars>>

(***************************************************************************)
(* progress-calculator-v3: item score, scope roll-up                       *)
(***************************************************************************)
VERIFICATION_KEYWORDS ==
    {"תקין", "מאושר", "אושר", "הושלם בהצלחה", "ללא הערות", "ללא ליקויים",
     "בסדר", "ok", "verified", "approved"}

\* the keyword scan of isVerified, tabulated for the notes in use
verifiedScan ==
    [n \in NoteTexts |->
        \E k \in VERIFICATION_KEYWORDS : Includes(toLowerCase(n), toLowerCase(k))]

isVerified(notes) ==
    IF notes = NULL \/ notes = "" THEN FALSE
    ELSE IF notes \in NoteTexts THEN verifiedScan[notes]
    ELSE \E k \in VERIFICATION_KEYWORDS : Includes(toLowerCase(notes), toLowerCase(k))

\* calculateItemProgressV3(status, notes, {isFirstTimeSeen}); the routes
\* import it as calculateItemProgressV2
calculateItemProgressV3(status, notes, isFirstTimeSeen) ==
    LET effectiveStatus == getEffectiveStatus(status, notes)
        isFirstTime == isFirstTimeSeen # FALSE
        thresholds == getProgressThresholds
    IN  IF effectiveStatus = "COMPLETED_OK"
        THEN [progress |-> thresholds.VERIFIED_NO_DEFECTS, reason |-> "verified_no_defects"]
        ELSE IF effectiveStatus = "COMPLETED"
        THEN IF isVerified(notes)
             THEN [progress |-> thresholds.VERIFIED_NO_DEFECTS, reason |-> "verified_via_notes"]
             ELSE IF isFirstTime
             THEN [progress |-> thresholds.COMPLETED_OK_FIRST, reason |-> "completed_ok_first_time"]
             ELSE [progress |-> thresholds.COMPLETED_OK_LATER, reason |-> "completed_ok_later"]
        ELSE IF effectiveStatus = "HANDLED"
        THEN [progress |-> thresholds.HANDLED, reason |-> "handled"]
        ELSE IF effectiveStatus = "DEFECT" \/ effectiveStatus = "NOT_OK"
        THEN [progress |-> thresholds.DEFECT_WORK_DONE, reason |-> "defect_work_done"]
        ELSE IF effectiveStatus = "IN_PROGRESS"
        THEN [progress |-> thresholds.IN_PROGRESS, reason |-> "in_progress"]
        ELSE IF effectiveStatus = "PENDING"
        THEN [progress |-> thresholds.PENDING, reason |-> "pending"]
        ELSE IF effectiveStatus = "NOT_STARTED"
        THEN [progress |-> thresholds.NOT_STARTED, reason |-> "not_started"]
        ELSE [progress |-> thresholds.UNKNOWN, reason |-> "unknown_status"]

\* calculateItemProgressV2 of progress-calculator-v2, the scorer V3 was
\* refactored from; its PROGRESS_THRESHOLDS holds the default values
calculateItemProgressV2(status, notes, isFirstTimeSeen) ==
    LET hasIssuesInNotes == hasNegativeNotes(notes)
        isFirstTime == isFirstTimeSeen # FALSE
    IN  IF status = "COMPLETED_OK"
        THEN IF hasIssuesInNotes
             THEN [progress |-> PROGRESS_THRESHOLDS.COMPLETED_WITH_ISSUES,
                   reason |-> "completed_ok_with_issues"]
             ELSE [progress |-> PROGRESS_THRESHOLDS.VERIFIED_NO_DEFECTS,
                   reason |-> "verified_no_defects"]
        ELSE IF status = "COMPLETED"
        THEN IF hasIssuesInNotes
             THEN [progress |-> PROGRESS_THRESHOLDS.COMPLETED_WITH_ISSUES,
                   reason |-> "completed_with_issues"]
             ELSE IF isVerified(notes)
             THEN [progress |-> PROGRESS_THRESHOLDS.VERIFIED_NO_DEFECTS,
                   reason |-> "verified_via_notes"]
             ELSE IF isFirstTime
             THEN [progress |-> PROGRESS_THRESHOLDS.COMPLETED_OK_FIRST,
                   reason |-> "completed_ok_first_time"]
             ELSE [progress |-> PROGRESS_THRESHOLDS.COMPLETED_OK_LATER,
                   reason |-> "completed_ok_later"]
        ELSE IF status = "HANDLED"
        THEN [progress |-> PROGRESS_THRESHOLDS.HANDLED, reason |-> "handled"]
        ELSE IF status = "DEFECT" \/ status = "NOT_OK"
        THEN [progress |-> PROGRESS_THRESHOLDS.DEFECT_WORK_DONE, reason |-> "defect_work_done"]
        ELSE IF status = "IN_PROGRESS"
        THEN [progress |-> PROGRESS_THRESHOLDS.IN_PROGRESS, reason |-> "in_progress"]
        ELSE IF status = "PENDING"
        THEN [progress |-> PROGRESS_THRESHOLDS.PENDING, reason |-> "pending"]
        ELSE IF status = "NOT_STARTED"
        THEN [progress |-> PROGRESS_THRESHOLDS.NOT_STARTED, reason |-> "not_started"]
        ELSE [progress |-> PROGRESS_THRESHOLDS.UNKNOWN, reason |-> "unknown_status"]

\* Math.round(a / b) for a >= 0, b > 0
MathRound(a, b) == (2 * a + b) \div (2 * b)

\* hasDefect(status, notes) of progress-calculator-v3
hasDefect(status, notes) == isNegativeStatus(getEffectiveStatus(status, notes))

\* the loop of calculateCategoryProgress over items[1..n]: the running
\* totalProgress, verifiedCount and defectCount
RECURSIVE CategoryTotals(_, _)
CategoryTotals(items, n) ==
    IF n = 0 THEN [totalProgress |-> 0, verifiedCount |-> 0, defectCount |-> 0]
    ELSE LET before == CategoryTotals(items, n - 1)
             item == items[n]
             itemResult == calculateItemProgressV3(item.status, item.notes, TRUE)
         IN  [totalProgress |-> before.totalProgress + itemResult.progress,
              verifiedCount |->
                  before.verifiedCount
                  + (IF itemResult.progress >= getProgressThresholds.VERIFIED_NO_DEFECTS
                     THEN 1 ELSE 0),
              defectCount |->
                  before.defectCount
                  + (IF hasDefect(item.status, item.notes) THEN 1 ELSE 0)]

\* variant: a running mean, each item averaged with the mean so far
RECURSIVE RunningMean(_, _)
RunningMean(items, n) ==
    IF n = 0 THEN 0
    ELSE LET p == calculateItemProgressV3(items[n].status, items[n].notes, TRUE).progress
         IN  IF n = 1 THEN p ELSE MathRound(RunningMean(items, n - 1) + p, 2)

calculateCategoryProgressRunningMean(items) ==
    [progress |-> RunningMean(items, Len(items)),
     itemCount |-> Len(items),
     verifiedCount |-> CategoryTotals(items, Len(items)).verifiedCount,
     defectCount |-> CategoryTotals(items, Len(items)).defectCount]

\* calculateCategoryProgress(items): the rounded mean of the item scores
calculateCategoryProgress(items) ==
    IF Len(items) = 0
    THEN [progress |-> 0, itemCount |-> 0, verifiedCount |-> 0, defectCount |-> 0]
    ELSE LET totals == CategoryTotals(items, Len(items))
         IN  [progress |-> MathRound(totals.totalProgress, Len(items)),
              itemCount |-> Len(items),
              verifiedCount |-> totals.verifiedCount,
              defectCount |-> totals.defectCount]

RECURSIVE Sum(_, _)
Sum(f, S) ==
    IF S = {} THEN 0
    ELSE LET x == CHOOSE y \in S : TRUE
         IN  f[x] + Sum(f, S \ {x})

\* weights[category] || config.defaultCategoryWeight
WeightOf(category) ==
    LET weights == getCategoryWeights
    IN  IF category \in DOMAIN weights /\ weights[category] # 0
        THEN weights[category]
        ELSE getConfigSafe.defaultCategoryWeight

\* the value a category ever seen adds to the weighted sum, per unit of weight
CategoryContribution(currentCategoryProgress, category) ==
    IF category \in DOMAIN currentCategoryProgress
    THEN currentCategoryProgress[category]
    ELSE getProgressThresholds.CATEGORY_GRADUATED

\* variant: every category of the weight table takes part, a category never
\* seen with CATEGORY_NEVER_SEEN
calculateOverallProgressOverWeightTable(currentCategoryProgress, categoriesEverSeen) ==
    LET thresholds == getProgressThresholds
        all == categoriesEverSeen \cup DOMAIN getCategoryWeights
        weight == [category \in all |-> WeightOf(category)]
        term == [category \in all |->
                    IF category \in DOMAIN currentCategoryProgress
                    THEN currentCategoryProgress[category] * weight[category]
                    ELSE IF category \in categoriesEverSeen
                    THEN thresholds.CATEGORY_GRADUATED * weight[category]
                    ELSE thresholds.CATEGORY_NEVER_SEEN * weight[category]]
        totalWeight == Sum(weight, all)
    IN  IF categoriesEverSeen = {} THEN 0
        ELSE IF totalWeight = 0 THEN 0
        ELSE MathRound(Sum(term, all), totalWeight)

\* calculateOverallProgressWithAllCategories(currentCategoryProgress,
\* categoriesEverSeen); currentCategoryProgress is a Map (a function)
calculateOverallProgressWithAllCategories(currentCategoryProgress, categoriesEverSeen) ==
    LET thresholds == getProgressThresholds
        weight == [category \in categoriesEverSeen |-> WeightOf(category)]
        term == [category \in categoriesEverSeen |->
                    IF category \in DOMAIN currentCategoryProgress
                    THEN currentCategoryProgress[category] * weight[category]
                    ELSE thresholds.CATEGORY_GRADUATED * weight[category]]
        totalWeight == Sum(weight, categoriesEverSeen)
        weightedSum == Sum(term, categoriesEverSeen)
    IN  IF categoriesEverSeen = {} THEN 0
        ELSE IF totalWeight = 0 THEN 0
        ELSE MathRound(weightedSum, totalWeight)

(***************************************************************************)
(* status-mapper: category normalisation                                   *)
(***************************************************************************)
\* hebrewCategoryMap, in insertion order
hebrewCategoryMap ==
    << <<"חשמל", "ELECTRICAL">>,
       <<"אינסטלציה", "PLUMBING">>,
       <<"מיזוג", "AC">>,
       <<"מיזוג אויר", "AC">>,
       <<"ריצוף", "FLOORING">>,
       <<"חיפוי", "FLOORING">>,
       <<"מישק", "FLOORING">>,
       <<"פנלים", "FLOORING">>,
       <<"ספרינקלרים", "SPRINKLERS">>,
       <<"ספרינקלר", "SPRINKLERS">>,
       <<"כיבוי", "SPRINKLERS">>,
       <<"כיבוי אש", "SPRINKLERS">>,
       <<"גבס", "DRYWALL">>,
       <<"הנמכות", "DRYWALL">>,
       <<"הנמכה", "DRYWALL">>,
       <<"סינרים", "DRYWALL">>,
       <<"קונסטרוקציה", "DRYWALL">>,
       <<"איטום", "WATERPROOFING">>,
       <<"צביעה", "PAINTING">>,
       <<"צבע", "PAINTING">>,
       <<"מטבח", "KITCHEN">>,
       <<"חלונות", "OTHER">>,
       <<"דלת כניסה", "OTHER">>,
       <<"כללי", "OTHER">>,
       <<"סניטריה", "OTHER">>,
       <<"פיתוח", "OTHER">>,
       <<"עבודות פיתוח", "OTHER">>,
       <<"אחר", "OTHER">> >>

normalizeCategory(hebrewCategory) ==
    LET trimmed == trim(hebrewCategory)
        direct == {i \in 1..Len(hebrewCategoryMap) : hebrewCategoryMap[i][1] = trimmed}
        partial == {i \in 1..Len(hebrewCategoryMap) : Includes(trimmed, hebrewCategoryMap[i][1])}
    IN  IF direct # {}
        THEN hebrewCategoryMap[CHOOSE i \in direct : \A j \in direct : i >= j][2]
        ELSE IF partial # {}
        THEN hebrewCategoryMap[CHOOSE i \in partial : \A j \in partial : i <= j][2]
        ELSE "OTHER"

(***************************************************************************)
(* Ingestion (processAllPdfs / processPdf), one store write per step       *)
(***************************************************************************)
APARTMENTS == {"1", "3", "5", "6", "7", "10", "11", "14"}

\* the generated primary key of the apartment row with this number
ApartmentId(number) == "apt-" \o number

\* ensureProjectAndApartments: upsert one apartment row per number
ensureProjectAndApartments ==
    /\ apartments # {[id |-> ApartmentId(n), number |-> n] : n \in APARTMENTS}
    /\ apartments' = apartments \cup {[id |-> ApartmentId(n), number |-> n] : n \in APARTMENTS}
    /\ UNCHANGED <<reports, configFile, cachedConfig>>
    /\ UNCHANGED <<uploadVars, callVars>>

\* a report row exists whose items are still being written
InProgress == reports # <<>> /\ ~reports[Len(reports)].processed

\* processPdf, report upsert: the row is created with processed = false.
\* processAllPdfs sorts the files by name (date first), so report dates
\* increase with the order of ingestion.
ProcessPdfCreateReport(maxReports) ==
    /\ apartments # {}
    /\ ~InProgress
    /\ Len(reports) < maxReports
    /\ reports' = Append(reports,
                         [reportDate |-> Len(reports) + 1,
                          processed |-> FALSE,
                          workItems |-> <<>>])
    /\ UNCHANGED <<apartments, configFile, cachedConfig>>
    /\ UNCHANGED <<uploadVars, callVars>>

\* processPdf, one prisma.workItem.create of the apartment loop; an unknown
\* apartment number is skipped
ProcessPdfApartmentItem(numbers, categories, descriptions, statuses, notes, maxItems) ==
    /\ InProgress
    /\ Len(reports[Len(reports)].workItems) < maxItems
    /\ \A i \in 1..Len(reports[Len(reports)].workItems) :
           reports[Len(reports)].workItems[i].apartmentId # NULL
    /\ \E n \in numbers, c \in categories, d \in descriptions, s \in statuses, t \in notes :
          /\ \E a \in apartments : a.number = n
          /\ reports' = [reports EXCEPT ![Len(reports)].workItems =
                 Append(@, [apartmentId |-> (CHOOSE a \in apartments : a.number = n).id,
                            category |-> normalizeCategory(c),
                            description |-> d,
                            status |-> normalizeStatus(s),
                            notes |-> IF t = "" THEN NULL ELSE t])]
    /\ UNCHANGED <<apartments, configFile, cachedConfig>>
    /\ UNCHANGED <<uploadVars, callVars>>

\* processPdf, one prisma.workItem.create of the developmentItems loop
ProcessPdfDevelopmentItem(categories, descriptions, statuses, notes, maxItems) ==
    /\ InProgress
    /\ Len(reports[Len(reports)].workItems) < maxItems
    /\ \E c \in categories, d \in descriptions, s \in statuses, t \in notes :
          reports' = [reports EXCEPT ![Len(reports)].workItems =
                 Append(@, [apartmentId |-> NULL,
                            category |-> normalizeCategory(c),
                            description |-> d,
                            status |-> normalizeStatus(s),
                            notes |-> IF t = "" THEN NULL ELSE t])]
    /\ UNCHANGED <<apartments, configFile, cachedConfig>>
    /\ UNCHANGED <<uploadVars, callVars>>

\* processPdf, last write: processed = true
ProcessPdfMarkProcessed ==
    /\ InProgress
    /\ reports' = [reports EXCEPT ![Len(reports)].processed = TRUE]
    /\ UNCHANGED <<apartments, configFile, cachedConfig>>
    /\ UNCHANGED <<uploadVars, callVars>>

\* what every dashboard route reads: processed reports, by date
ProcessedReports == SelectSeq(reports, LAMBDA r : r.processed)

(***************************************************************************)
(* Upload route: its own status table and keyword scans                    *)
(***************************************************************************)
\* the upload route's hebrewStatusMap, in insertion order
UploadHebrewStatusMap ==
    << <<"בוצע", "COMPLETED">>,
       <<"בוצע - תקין", "COMPLETED_OK">>,
       <<"תקין", "COMPLETED_OK">>,
       <<"לא תקין", "NOT_OK">>,
       <<"ליקוי", "DEFECT">>,
       <<"בטיפול", "IN_PROGRESS">>,
       <<"טופל", "HANDLED">>,
       <<"ממתין", "PENDING">>,
       <<"לא התחיל", "NOT_STARTED">>,
       <<"בביצוע", "IN_PROGRESS">>,
       <<"הושלם", "COMPLETED">>,
       <<"נמצא ליקוי", "DEFECT">>,
       <<"תוקן", "HANDLED">>,
       <<"קיימים אי תאומים", "DEFECT">>,
       <<"קיימים אי תיאומים", "DEFECT">>,
       <<"אי תאומים", "DEFECT">>,
       <<"אי תיאומים", "DEFECT">>,
       <<"יש הערות", "DEFECT">>,
       <<"בוצע - יש הערות", "DEFECT">>,
       <<"בוצע - יש ליקויים", "DEFECT">>,
       <<"בוצע - נמצאו אי תאומים", "DEFECT">>,
       <<"בוצע - נמצאו אי תיאומים", "DEFECT">>,
       <<"נמצאו אי תאומים", "DEFECT">>,
       <<"נמצאו אי תיאומים", "DEFECT">>,
       <<"בוצע חלקי", "IN_PROGRESS">>,
       <<"לטיפול", "PENDING">>,
       <<"נדרש מעקב", "PENDING">>,
       <<"נדרש ביצוע", "PENDING">>,
       <<"בוצע עם הערות", "DEFECT">> >>

DEFECT_KEYWORDS ==
    {"אי תיאומים", "אי תאומים", "נמצאו אי", "קיימים אי",
     "יש הערות", "יש ליקויים", "ליקוי", "ליקויים",
     "לא תקין", "חסר", "חסרה", "חסרות", "חסרים",
     "שבור", "שבורה", "שבורים", "סדוק", "סדוקה", "סדוקים",
     "פגם", "פגמים", "בעיה", "בעיות", "לתקן", "תיקון",
     "לא בוצע", "לא הותקן", "לא הותקנו", "חתוך", "חתוכים",
     "להחליף", "החלפה", "נזק", "נזקים", "לא הושלם", "טעון"}

PARTIAL_KEYWORDS == {"חלקי", "חלקית", "בביצוע", "בטיפול"}

\* [hebrewStatus, notes].filter(Boolean).join(' ')
CombinedText(hebrewStatus, notes) ==
    IF notes = NULL \/ notes = "" THEN hebrewStatus
    ELSE IF hebrewStatus = "" THEN notes
    ELSE hebrewStatus \o " " \o notes

\* the defect-keyword scan of the upload route's normalizeStatus
ContainsDefectKeyword(text) ==
    \E keyword \in DEFECT_KEYWORDS :
        Includes(toLowerCase(text), toLowerCase(keyword))

\* the upload route's normalizeStatus(hebrewStatus, notes): defect keywords
\* in status + notes, partial keywords in the status, direct match, then
\* the table's keys from the longest to the shortest (the sort is stable:
\* keys of equal length keep their insertion order), then IN_PROGRESS
UploadNormalizeStatus(hebrewStatus, notes) ==
    LET trimmed == toLowerCase(trim(hebrewStatus))
        table == UploadHebrewStatusMap
        direct == {i \in 1..Len(table) : table[i][1] = trim(hebrewStatus)}
        partial == {i \in 1..Len(table) : Includes(trimmed, toLowerCase(table[i][1]))}
        Before(i, j) == \/ Len(table[i][1]) > Len(table[j][1])
                        \/ Len(table[i][1]) = Len(table[j][1]) /\ i <= j
    IN  IF ContainsDefectKeyword(CombinedText(hebrewStatus, notes)) THEN "DEFECT"
        ELSE IF \E keyword \in PARTIAL_KEYWORDS : Includes(trimmed, toLowerCase(keyword))
        THEN "IN_PROGRESS"
        ELSE IF direct # {}
        THEN table[CHOOSE i \in direct : \A j \in direct : i >= j][2]
        ELSE IF partial # {}
        THEN table[CHOOSE i \in partial : \A j \in partial : Before(i, j)][2]
        ELSE "IN_PROGRESS"

\* the upload route's hebrewCategoryMap, in insertion order
UploadHebrewCategoryMap ==
    << <<"חשמל", "ELECTRICAL">>, <<"אינסטלציה", "PLUMBING">>,
       <<"מיזוג", "AC">>, <<"מיזוג אויר", "AC">>,
       <<"ריצוף", "FLOORING">>, <<"חיפוי", "FLOORING">>,
       <<"ספרינקלרים", "SPRINKLERS">>, <<"ספרינקלר", "SPRINKLERS">>,
       <<"כיבוי", "SPRINKLERS">>, <<"כיבוי אש", "SPRINKLERS">>,
       <<"גבס", "DRYWALL">>, <<"הנמכות", "DRYWALL">>,
       <<"איטום", "WATERPROOFING">>, <<"צביעה", "PAINTING">>,
       <<"צבע", "PAINTING">>, <<"מטבח", "KITCHEN">>,
       <<"חלונות", "OTHER">>, <<"דלת כניסה", "OTHER">>,
       <<"כללי", "OTHER">>, <<"סניטריה", "OTHER">>,
       <<"פיתוח", "OTHER">>, <<"עבודות פיתוח", "OTHER">>,
       <<"אחר", "OTHER">> >>

\* the upload route's normalizeCategory
UploadNormalizeCategory(hebrewCategory) ==
    LET trimmed == trim(hebrewCategory)
        table == UploadHebrewCategoryMap
        direct == {i \in 1..Len(table) : table[i][1] = trimmed}
        partial == {i \in 1..Len(table) : Includes(trimmed, table[i][1])}
    IN  IF direct # {}
        THEN table[CHOOSE i \in direct : \A j \in direct : i >= j][2]
        ELSE IF partial # {}
        THEN table[CHOOSE i \in partial : \A j \in partial : i <= j][2]
        ELSE "OTHER"

\* hebrewStatus.trim() / hebrewCategory.trim() on a missing value is a
\* TypeError: the calls of the item loop that throw
NormalizationThrows(item) == item.category = NULL \/ item.status = NULL

(***************************************************************************)
(* upload-validation: validateExtractedData, createFullValidationResult    *)
(***************************************************************************)
VALID_PROJECT_IDENTIFIERS == {"מוסינזון 5", "מוסינזון", "mosinzon", "מוסינסון", "מוסנזון"}

VALID_CITY_IDENTIFIERS == {"תל אביב", "תל-אביב", "tel aviv", "ת\"א", "תא"}

validApartments == {"1", "3", "5", "6", "7", "10", "11", "14"}

\* a date is a day number; 0 is an Invalid Date, NoDate a missing one
NoDate == -1

IsValidDate(date) == date # 0

\* validateExtractedData(data) for an extraction whose work items are
\* data.workItems (the development items have apartmentNumber = null)
validateExtractedData(data) ==
    LET projectName == IF data.projectName = NULL THEN "" ELSE toLowerCase(data.projectName)
        hasValidProject ==
            \E id \in VALID_PROJECT_IDENTIFIERS : Includes(projectName, toLowerCase(id))
        hasValidCity ==
            \E id \in VALID_CITY_IDENTIFIERS : Includes(projectName, toLowerCase(id))
        foundApartments ==
            {data.workItems[i].apartmentNumber : i \in 1..Len(data.workItems)} \ {NULL}
        totalWorkItems == Len(data.workItems)
        itemsWithMissingFields ==
            Cardinality({i \in 1..Len(data.workItems) :
                \/ data.workItems[i].category \in {NULL, ""}
                \/ data.workItems[i].status \in {NULL, ""}})
        errors ==
            (IF data.reportDate # NoDate /\ ~IsValidDate(data.reportDate) THEN 1 ELSE 0)
            + (IF ~hasValidProject /\ Len(projectName) > 0 THEN 1 ELSE 0)
            + (IF totalWorkItems = 0 THEN 2 ELSE 0)
        warnings ==
            (IF data.reportDate = NoDate THEN 1 ELSE 0)
            + (IF ~hasValidProject /\ Len(projectName) = 0 THEN 1 ELSE 0)
            + (IF hasValidProject /\ ~hasValidCity /\ Len(projectName) > 0 THEN 1 ELSE 0)
            + (IF foundApartments \ validApartments # {} THEN 1 ELSE 0)
            + (IF totalWorkItems > 0 /\ totalWorkItems < 5 THEN 1 ELSE 0)
            + (IF itemsWithMissingFields > 0 THEN 1 ELSE 0)
        confidence ==
            IF errors > 0 THEN "invalid"
            ELSE IF warnings = 0 /\ totalWorkItems >= 10 /\ hasValidProject THEN "high"
            ELSE IF warnings <= 2 /\ totalWorkItems >= 5 THEN "medium"
            ELSE "low"
    IN  [valid |-> errors = 0, errors |-> errors, warnings |-> warnings,
         confidence |-> confidence]

\* createFullValidationResult({valid: true}, dataValidation)
createFullValidationResult(dataValidation) ==
    [canProceed |-> dataValidation.valid,
     requiresConfirmation |->
        dataValidation.warnings > 0 \/ dataValidation.confidence = "low"]

(***************************************************************************)
(* The uploads in use                                                      *)
(***************************************************************************)
\* the files uploaded, and what extractPdfData returns for a file: a report
\* with an apartment item, a development item and a tracking row; a report
\* whose second item has no category; a report without work items
UploadFiles == {"2024-11-03.pdf", "2024-11-10.pdf"}

DocComplete ==
    [projectName |-> "מוסינזון 5 תל אביב",
     reportDate |-> NoDate,
     workItems |->
        << [apartmentNumber |-> "1", category |-> "חשמל",
            description |-> "נקודת חשמל", status |-> "בוצע", notes |-> ""],
           [apartmentNumber |-> NULL, category |-> "פיתוח",
            description |-> "גינון", status |-> "בטיפול", notes |-> ""] >>,
     progressTracking |->
        << [apartmentNumber |-> "1", category |-> "חשמל",
            inspectionDate |-> 2, status |-> "תקין"] >>]

DocMissingCategory ==
    [projectName |-> "מוסינזון 5 תל אביב",
     reportDate |-> NoDate,
     workItems |->
        << [apartmentNumber |-> "1", category |-> "חשמל",
            description |-> "נקודת חשמל", status |-> "בוצע", notes |-> ""],
           [apartmentNumber |-> "1", category |-> NULL,
            description |-> "ברז", status |-> "בוצע", notes |-> ""] >>,
     progressTracking |-> <<>>]

DocNoItems ==
    [projectName |-> "מוסינזון 5 תל אביב",
     reportDate |-> NoDate,
     workItems |-> <<>>,
     progressTracking |-> <<>>]

ExtractedDocuments == {DocComplete, DocMissingCategory, DocNoItems}

\* the work items and tracking rows of the documents that the normalizers
\* accept
ExtractedItems ==
    {x \in UNION {{data.workItems[i] : i \in 1..Len(data.workItems)} :
                     data \in ExtractedDocuments} : ~NormalizationThrows(x)}

ExtractedTrackings ==
    UNION {{data.progressTracking[i] : i \in 1..Len(data.progressTracking)} :
              data \in ExtractedDocuments}

\* the validation and the normalizations, tabulated for the documents in use
validationScan ==
    [data \in ExtractedDocuments |->
        createFullValidationResult(validateExtractedData(data))]

normalizationScan ==
    [item \in ExtractedItems |->
        [category |-> UploadNormalizeCategory(item.category),
         status |-> UploadNormalizeStatus(item.status, item.notes)]]

trackingScan ==
    [tracking \in {x \in ExtractedTrackings : x.category # NULL} |->
        [category |-> UploadNormalizeCategory(tracking.category),
         status |-> IF tracking.status \in {NULL, ""} THEN NULL
                    ELSE UploadNormalizeStatus(tracking.status, NULL)]]

FullValidationOf(data) ==
    IF data \in ExtractedDocuments THEN validationScan[data]
    ELSE createFullValidationResult(validateExtractedData(data))

NormalizedItem(item) ==
    IF item \in ExtractedItems THEN normalizationScan[item]
    ELSE [category |-> UploadNormalizeCategory(item.category),
          status |-> UploadNormalizeStatus(item.status, item.notes)]

NormalizedTracking(tracking) ==
    IF tracking \in DOMAIN trackingScan THEN trackingScan[tracking]
    ELSE [category |-> UploadNormalizeCategory(tracking.category),
          status |-> IF tracking.status \in {NULL, ""} THEN NULL
                     ELSE UploadNormalizeStatus(tracking.status, NULL)]

(***************************************************************************)
(* snapshot.ts: createSnapshot, restoreSnapshot                            *)
(***************************************************************************)
\* Date.prototype.toISOString and new Date(isoString)
toISOString(date) == [iso |-> date]

NewDate(text) == text.iso

\* the rows of the store in the order of `orderBy: { reportDate: 'asc' }`:
\* row inserted after the rows whose date is not later
InsertByDate(rows, row) ==
    LET k == Cardinality({i \in 1..Len(rows) : rows[i].reportDate <= row.reportDate})
    IN  SubSeq(rows, 1, k) \o <<row>> \o SubSeq(rows, k + 1, Len(rows))

\* prisma.workItem.findMany(): the work items of every report, each with
\* its reportId
RECURSIVE AllWorkItems(_, _)
AllWorkItems(rows, i) ==
    IF i > Len(rows) THEN <<>>
    ELSE [j \in 1..Len(rows[i].workItems) |->
             [reportId |-> rows[i].id, row |-> rows[i].workItems[j]]]
         \o AllWorkItems(rows, i + 1)

\* createSnapshot: the SnapshotData that is stringified into the snapshot
\* row (reports by reportDate desc, dates as ISO strings)
SnapshotDataOf(rows) ==
    [reports |->
        [i \in 1..Len(rows) |->
            LET r == rows[Len(rows) + 1 - i]
            IN  [id |-> r.id, fileName |-> r.fileName,
                 reportDate |-> toISOString(r.reportDate),
                 rawExtraction |-> r.rawExtraction,
                 processed |-> r.processed]],
     workItems |-> AllWorkItems(rows, 1),
     inspections |->
        UNION {{[reportId |-> rows[i].id, apartmentId |-> x.apartmentId,
                 category |-> x.category,
                 inspectionDate |-> toISOString(x.inspectionDate),
                 status |-> x.status] : x \in rows[i].inspections} :
               i \in 1..Len(rows)}]

\* restoreSnapshot, the rows its transaction leaves in the store
RECURSIVE RestoredRows(_, _)
RestoredRows(snapshotData, i) ==
    IF i > Len(snapshotData.reports) THEN <<>>
    ELSE LET report == snapshotData.reports[i]
             items == SelectSeq(snapshotData.workItems,
                                LAMBDA w : w.reportId = report.id)
         IN  InsertByDate(
                 RestoredRows(snapshotData, i + 1),
                 [id |-> report.id, fileName |-> report.fileName,
                  reportDate |-> NewDate(report.reportDate),
                  rawExtraction |-> report.rawExtraction,
                  processed |-> report.processed,
                  workItems |-> [j \in 1..Len(items) |-> items[j].row],
                  inspections |->
                      {[apartmentId |-> x.apartmentId, category |-> x.category,
                        inspectionDate |-> NewDate(x.inspectionDate),
                        status |-> x.status] :
                          x \in {y \in snapshotData.inspections :
                                    y.reportId = report.id}}])

(***************************************************************************)
(* POST /api/upload, one action per step between two awaits that write,    *)
(* and POST /api/snapshots/rollback                                        *)
(***************************************************************************)
\* concurrent upload requests
UploadIds == {1, 2}

\* snapshots taken (upload requests that pass the duplicate checks); below
\* 20, so that cleanupOldSnapshots(20) deletes nothing
MaxSnapshots == 2

NoData ==
    [projectName |-> NULL, reportDate |-> NoDate, workItems |-> <<>>,
     progressTracking |-> <<>>]

\* no processPdf call under way, none started yet
IdleProcessing ==
    [pc |-> "idle", fileName |-> "", reportId |-> 0, data |-> NoData,
     next |-> 0, nextTracking |-> 0, attempts |-> 0]

\* no request in flight
IdleUpload ==
    [pc |-> "idle", fileName |-> "", force |-> FALSE, snapshotId |-> 0,
     data |-> NoData, reportId |-> 0, next |-> 0, nextTracking |-> 0]

\* extractDateFromFilename, format 1 (YYYY-MM-DD at the start), as a day
\* number; 0 when the name holds no date
extractDateFromFilename(filename) ==
    IF Len(filename) >= 10 /\ SubSeq(filename, 1, 8) = "2024-11-"
    THEN IF SubSeq(filename, 9, 10) = "03" THEN 3
         ELSE IF SubSeq(filename, 9, 10) = "10" THEN 10
         ELSE 0
    ELSE 0

\* new Date() at the time of the uploads
Today == 20

RowExists(reportId) == \E i \in 1..Len(reports) : reports[i].id = reportId

RowIndex(reportId) == CHOOSE i \in 1..Len(reports) : reports[i].id = reportId

\* the catch block: unlink(savedFilePath), response 500 with the snapshotId
UploadCatch(u) ==
    /\ pdfDir' = pdfDir \ {uploads[u].fileName}
    /\ uploads' = [uploads EXCEPT ![u] = IdleUpload]

\* from the request to createSnapshot: 409 when a report has the file's name
\* or the date of the file's name; else the snapshot row is created
\* (with it are kept, for the properties, the files of data/pdfs at that
\* time and, from the first write on, the rows stored just before it)
UploadRequest(u, fileName, force) ==
    /\ uploads[u].pc = "idle"
    /\ Len(snapshots) < MaxSnapshots
    /\ IF \/ \E i \in 1..Len(reports) : reports[i].fileName = fileName
          \/ /\ extractDateFromFilename(fileName) # 0
             /\ \E i \in 1..Len(reports) :
                    reports[i].reportDate = extractDateFromFilename(fileName)
       THEN UNCHANGED <<uploads, snapshots>>
       ELSE /\ snapshots' = Append(snapshots,
                                   [data |-> SnapshotDataOf(reports),
                                    restoredAt |-> FALSE,
                                    wrote |-> FALSE, before |-> <<>>,
                                    files |-> pdfDir])
            /\ uploads' = [uploads EXCEPT ![u] =
                              [IdleUpload EXCEPT !.pc = "snapshot",
                                                 !.fileName = fileName,
                                                 !.force = force,
                                                 !.snapshotId = Len(snapshots) + 1]]
    /\ UNCHANGED <<apartments, reports, configFile, cachedConfig, pdfDir, nextReportId>>
    /\ UNCHANGED callVars

\* writeFile into data/pdfs, then the apartment upserts
UploadSaveFile(u) ==
    /\ uploads[u].pc = "snapshot"
    /\ pdfDir' = pdfDir \cup {uploads[u].fileName}
    /\ apartments' = apartments \cup {[id |-> ApartmentId(n), number |-> n] : n \in APARTMENTS}
    /\ uploads' = [uploads EXCEPT ![u].pc = "saved"]
    /\ UNCHANGED <<reports, configFile, cachedConfig, snapshots, nextReportId>>
    /\ UNCHANGED callVars

\* extractPdfData and the validation of its result: an extraction error,
\* a result that cannot proceed, or one that needs a confirmation the
\* request did not give, unlink the file and end the request
UploadExtract(u, documents) ==
    /\ uploads[u].pc = "saved"
    /\ \/ /\ pdfDir' = pdfDir \ {uploads[u].fileName}
          /\ uploads' = [uploads EXCEPT ![u] = IdleUpload]
       \/ \E data \in documents :
             LET fullValidation == FullValidationOf(data)
             IN  IF \/ ~fullValidation.canProceed
                    \/ fullValidation.requiresConfirmation /\ ~uploads[u].force
                 THEN /\ pdfDir' = pdfDir \ {uploads[u].fileName}
                      /\ uploads' = [uploads EXCEPT ![u] = IdleUpload]
                 ELSE /\ pdfDir' = pdfDir
                      /\ uploads' = [uploads EXCEPT ![u].pc = "validated",
                                                    ![u].data = data]
    /\ UNCHANGED <<apartments, reports, configFile, cachedConfig, snapshots, nextReportId>>
    /\ UNCHANGED callVars

\* prisma.report.create with processed: false; fileName is unique, so the
\* create throws when a row with this name exists by now
UploadCreateReport(u) ==
    /\ uploads[u].pc = "validated"
    /\ IF \E i \in 1..Len(reports) : reports[i].fileName = uploads[u].fileName
       THEN /\ UploadCatch(u)
            /\ UNCHANGED <<reports, snapshots, nextReportId>>
       ELSE LET data == uploads[u].data
                filenameDate == extractDateFromFilename(uploads[u].fileName)
                reportDate ==
                    IF data.reportDate # NoDate /\ IsValidDate(data.reportDate)
                    THEN data.reportDate
                    ELSE IF filenameDate # 0 THEN filenameDate ELSE Today
            IN  /\ reports' = InsertByDate(reports,
                                  [id |-> nextReportId,
                                   fileName |-> uploads[u].fileName,
                                   reportDate |-> reportDate,
                                   rawExtraction |-> data,
                                   processed |-> FALSE,
                                   workItems |-> <<>>,
                                   inspections |-> {}])
                /\ nextReportId' = nextReportId + 1
                /\ snapshots' = [snapshots EXCEPT
                                    ![uploads[u].snapshotId].wrote = TRUE,
                                    ![uploads[u].snapshotId].before = reports]
                /\ uploads' = [uploads EXCEPT ![u].pc = "items",
                                              ![u].reportId = nextReportId,
                                              ![u].next = 1,
                                              ![u].nextTracking = 1]
                /\ pdfDir' = pdfDir
    /\ UNCHANGED <<apartments, configFile, cachedConfig>>
    /\ UNCHANGED callVars

\* one turn of the work-item loops: an unknown apartment is skipped; a
\* missing category or status makes the normalizer throw; the create fails
\* when the report row is gone
UploadWriteItem(u) ==
    /\ uploads[u].pc = "items"
    /\ uploads[u].next <= Len(uploads[u].data.workItems)
    /\ LET item == uploads[u].data.workItems[uploads[u].next]
       IN  IF /\ item.apartmentNumber # NULL
              /\ ~\E a \in apartments : a.number = item.apartmentNumber
           THEN /\ uploads' = [uploads EXCEPT ![u].next = @ + 1]
                /\ UNCHANGED <<reports, pdfDir>>
           ELSE IF NormalizationThrows(item) \/ ~RowExists(uploads[u].reportId)
           THEN /\ UploadCatch(u)
                /\ UNCHANGED reports
           ELSE /\ reports' = [reports EXCEPT ![RowIndex(uploads[u].reportId)].workItems =
                       Append(@,
                           [apartmentId |->
                               IF item.apartmentNumber = NULL THEN NULL
                               ELSE (CHOOSE a \in apartments :
                                        a.number = item.apartmentNumber).id,
                            category |-> NormalizedItem(item).category,
                            description |-> item.description,
                            status |-> NormalizedItem(item).status,
                            notes |-> IF item.notes \in {NULL, ""} THEN NULL
                                      ELSE item.notes])]
                /\ uploads' = [uploads EXCEPT ![u].next = @ + 1]
                /\ pdfDir' = pdfDir
    /\ UNCHANGED <<apartments, configFile, cachedConfig, snapshots, nextReportId>>
    /\ UNCHANGED callVars

\* one turn of the progressTracking loop: prisma.inspection.upsert on
\* (reportId, apartmentId, category)
UploadWriteTracking(u) ==
    /\ uploads[u].pc = "items"
    /\ uploads[u].next > Len(uploads[u].data.workItems)
    /\ uploads[u].nextTracking <= Len(uploads[u].data.progressTracking)
    /\ LET tracking == uploads[u].data.progressTracking[uploads[u].nextTracking]
       IN  IF \/ ~\E a \in apartments : a.number = tracking.apartmentNumber
              \/ tracking.inspectionDate = NoDate
           THEN /\ uploads' = [uploads EXCEPT ![u].nextTracking = @ + 1]
                /\ UNCHANGED <<reports, pdfDir>>
           ELSE IF tracking.category = NULL \/ ~RowExists(uploads[u].reportId)
           THEN /\ UploadCatch(u)
                /\ UNCHANGED reports
           ELSE LET apartmentId ==
                        (CHOOSE a \in apartments : a.number = tracking.apartmentNumber).id
                    category == NormalizedTracking(tracking).category
                IN  /\ reports' = [reports EXCEPT ![RowIndex(uploads[u].reportId)].inspections =
                           {x \in @ : ~(x.apartmentId = apartmentId /\ x.category = category)}
                           \cup {[apartmentId |-> apartmentId,
                                  category |-> category,
                                  inspectionDate |-> tracking.inspectionDate,
                                  status |-> NormalizedTracking(tracking).status]}]
                    /\ uploads' = [uploads EXCEPT ![u].nextTracking = @ + 1]
                    /\ pdfDir' = pdfDir
    /\ UNCHANGED <<apartments, configFile, cachedConfig, snapshots, nextReportId>>
    /\ UNCHANGED callVars

\* prisma.report.update processed: true, then the success response
UploadMarkProcessed(u) ==
    /\ uploads[u].pc = "items"
    /\ uploads[u].next > Len(uploads[u].data.workItems)
    /\ uploads[u].nextTracking > Len(uploads[u].data.progressTracking)
    /\ IF ~RowExists(uploads[u].reportId)
       THEN /\ UploadCatch(u)
            /\ UNCHANGED reports
       ELSE /\ reports' = [reports EXCEPT ![RowIndex(uploads[u].reportId)].processed = TRUE]
            /\ uploads' = [uploads EXCEPT ![u] = IdleUpload]
            /\ pdfDir' = pdfDir
    /\ UNCHANGED <<apartments, configFile, cachedConfig, snapshots, nextReportId>>
    /\ UNCHANGED callVars

\* POST /api/snapshots/rollback: restoreSnapshot(snapshotId), one
\* transaction
RestoreSnapshot(snapshotId) ==
    /\ snapshotId \in 1..Len(snapshots)
    /\ reports' = RestoredRows(snapshots[snapshotId].data, 1)
    /\ snapshots' = [snapshots EXCEPT ![snapshotId].restoredAt = TRUE]
    /\ UNCHANGED <<apartments, configFile, cachedConfig, uploads, pdfDir, nextReportId>>
    /\ UNCHANGED callVars

(***************************************************************************)
(* processPdf on one file of data/pdfs, one action per step between two    *)
(* awaits that write; a step that throws ends the call in the catch block  *)
(***************************************************************************)
\* runs of processPdf started
MaxAttempts == 3

\* what extractPdfData returns for a file of the directory: one of the
\* documents, dated as the file is named
ScriptDocuments(fileName) ==
    {[data EXCEPT !.reportDate = extractDateFromFilename(fileName)] :
        data \in ExtractedDocuments}

\* the work item processPdf creates from an extracted item
ScriptWorkItem(item, apartmentId) ==
    [apartmentId |-> apartmentId,
     category |-> normalizeCategory(item.category),
     description |-> item.description,
     status |-> normalizeStatus(item.status),
     notes |-> IF item.notes = "" THEN NULL ELSE item.notes]

\* the catch block of processPdf: { success: false }; nothing is undone
ProcessPdfCatch ==
    processing' = [processing EXCEPT !.pc = "idle"]

\* processPdf up to the report upsert: a processed file is skipped without
\* a write, an invalid date throws, else the row is created (processed:
\* false) or its date and rawExtraction are updated
ProcessPdfBegin(fileName) ==
    /\ processing.pc = "idle"
    /\ processing.attempts < MaxAttempts
    /\ apartments # {}
    /\ \E data \in ScriptDocuments(fileName) :
          LET existing == {i \in 1..Len(reports) : reports[i].fileName = fileName}
          IN  IF \E i \in existing : reports[i].processed
              THEN /\ processing' = [processing EXCEPT !.attempts = @ + 1]
                   /\ UNCHANGED <<reports, nextReportId>>
              ELSE IF ~IsValidDate(data.reportDate)
              THEN /\ processing' = [processing EXCEPT !.attempts = @ + 1]
                   /\ UNCHANGED <<reports, nextReportId>>
              ELSE IF existing # {}
              THEN LET i == CHOOSE x \in existing : TRUE
                       row == [reports[i] EXCEPT !.reportDate = data.reportDate,
                                                 !.rawExtraction = data]
                   IN  /\ reports' = InsertByDate(
                                         SubSeq(reports, 1, i - 1)
                                             \o SubSeq(reports, i + 1, Len(reports)),
                                         row)
                       /\ processing' = [pc |-> "items", fileName |-> fileName,
                                         reportId |-> row.id, data |-> data,
                                         next |-> 1, nextTracking |-> 1,
                                         attempts |-> processing.attempts + 1]
                       /\ UNCHANGED nextReportId
              ELSE /\ reports' = InsertByDate(reports,
                                     [id |-> nextReportId,
                                      fileName |-> fileName,
                                      reportDate |-> data.reportDate,
                                      rawExtraction |-> data,
                                      processed |-> FALSE,
                                      workItems |-> <<>>,
                                      inspections |-> {}])
                   /\ nextReportId' = nextReportId + 1
                   /\ processing' = [pc |-> "items", fileName |-> fileName,
                                     reportId |-> nextReportId, data |-> data,
                                     next |-> 1, nextTracking |-> 1,
                                     attempts |-> processing.attempts + 1]
    /\ UNCHANGED <<apartments, configFile, cachedConfig, uploads, snapshots, pdfDir>>
    /\ UNCHANGED <<argument, result>>

\* one turn of the work-item loops (apartment items, then development
\* items): prisma.workItem.create; an unknown apartment is skipped; a
\* missing category or status makes the normalizer throw
ProcessPdfWriteItem ==
    /\ processing.pc = "items"
    /\ processing.next <= Len(processing.data.workItems)
    /\ LET item == processing.data.workItems[processing.next]
           known == {a \in apartments : a.number = item.apartmentNumber}
       IN  IF item.apartmentNumber # NULL /\ known = {}
           THEN /\ processing' = [processing EXCEPT !.next = @ + 1]
                /\ UNCHANGED reports
           ELSE IF NormalizationThrows(item)
           THEN /\ ProcessPdfCatch
                /\ UNCHANGED reports
           ELSE /\ reports' =
                      [reports EXCEPT ![RowIndex(processing.reportId)].workItems =
                          Append(@, ScriptWorkItem(item,
                                        IF item.apartmentNumber = NULL THEN NULL
                                        ELSE (CHOOSE a \in known : TRUE).id))]
                /\ processing' = [processing EXCEPT !.next = @ + 1]
    /\ UNCHANGED <<apartments, configFile, cachedConfig, uploadVars>>
    /\ UNCHANGED <<argument, result>>

\* one turn of the progress-tracking loop: prisma.inspection.upsert on
\* (reportId, apartmentId, category)
ProcessPdfWriteTracking ==
    /\ processing.pc = "items"
    /\ processing.next > Len(processing.data.workItems)
    /\ processing.nextTracking <= Len(processing.data.progressTracking)
    /\ LET tracking == processing.data.progressTracking[processing.nextTracking]
           known == {a \in apartments : a.number = tracking.apartmentNumber}
       IN  IF known = {}
           THEN UNCHANGED reports
           ELSE reports' =
                   [reports EXCEPT ![RowIndex(processing.reportId)].inspections =
                       {x \in @ : ~(/\ x.apartmentNumber = tracking.apartmentNumber
                                    /\ x.category = normalizeCategory(tracking.category))}
                       \cup {[apartmentNumber |-> tracking.apartmentNumber,
                              category |-> normalizeCategory(tracking.category),
                              inspectionDate |-> tracking.inspectionDate,
                              status |-> IF tracking.status \in {NULL, ""} THEN NULL
                                         ELSE normalizeStatus(tracking.status)]}]
    /\ processing' = [processing EXCEPT !.nextTracking = @ + 1]
    /\ UNCHANGED <<apartments, configFile, cachedConfig, uploadVars>>
    /\ UNCHANGED <<argument, result>>

\* a prisma call rejects (the database is busy or gone): the call ends in
\* the catch block with the rows written so far left in place
ProcessPdfFail ==
    /\ processing.pc = "items"
    /\ ProcessPdfCatch
    /\ UNCHANGED <<apartments, reports, configFile, cachedConfig, uploadVars>>
    /\ UNCHANGED <<argument, result>>

\* prisma.report.update processed: true, then { success: true }
ProcessPdfEnd ==
    /\ processing.pc = "items"
    /\ processing.next > Len(processing.data.workItems)
    /\ processing.nextTracking > Len(processing.data.progressTracking)
    /\ reports' = [reports EXCEPT ![RowIndex(processing.reportId)].processed = TRUE]
    /\ processing' = [processing EXCEPT !.pc = "idle"]
    /\ UNCHANGED <<apartments, configFile, cachedConfig, uploadVars>>
    /\ UNCHANGED <<argument, result>>

(***************************************************************************)
(* GET /api/apartments/[id]: apartment detail                              *)
(* n is the number of processed reports the route is given (reports 1..n); *)
(* the route itself runs with n = Len(ProcessedReports)                    *)
(***************************************************************************)
\* new Map()
EmptyMap == [k \in {} |-> NULL]

\* status OR notes indicate issues
itemHasDefect(status, notes) ==
    isNegativeStatus(status) \/ hasNegativeNotes(notes)

\* variant: completed by the status alone
itemIsCompletedByStatus(status, notes) == isPositiveStatus(status)

\* positive status AND no negative notes
itemIsCompleted(status, notes) ==
    isPositiveStatus(status) /\ ~hasNegativeNotes(notes)

\* the apartment ids the route answers for, and null for development
ApartmentFilters == {a.id : a \in apartments} \cup {NULL}

\* prisma.workItem.findMany({ reportId, apartmentId: apartmentIdFilter })
DetailItems(report, apartmentIdFilter) ==
    SelectSeq(report.workItems, LAMBDA item : item.apartmentId = apartmentIdFilter)

\* `${item.category}| ${item.description} `
DetailKey(item) == item.category \o "| " \o item.description \o " "

\* variant: hadDefectEver follows the latest record
RECURSIVE DetailUpdateHistoryLatestOnly(_, _, _)
DetailUpdateHistoryLatestOnly(itemHistory, items, reportIndex) ==
    IF items = <<>> THEN itemHistory
    ELSE LET item == Head(items)
             key == DetailKey(item)
             isDefectNow == itemHasDefect(item.status, item.notes)
             updated ==
                IF key \in DOMAIN itemHistory
                THEN [itemHistory EXCEPT ![key] =
                        [@ EXCEPT !.status = item.status,
                                  !.notes = item.notes,
                                  !.lastSeenReportIndex = reportIndex,
                                  !.hadDefectEver = isDefectNow]]
                ELSE itemHistory @@
                     (key :> [category |-> item.category,
                              status |-> item.status,
                              notes |-> item.notes,
                              description |-> item.description,
                              firstSeenReportIndex |-> reportIndex,
                              lastSeenReportIndex |-> reportIndex,
                              hadDefectEver |-> isDefectNow])
         IN  DetailUpdateHistoryLatestOnly(updated, Tail(items), reportIndex)

\* the history update of one report's items, in order
RECURSIVE DetailUpdateHistory(_, _, _)
DetailUpdateHistory(itemHistory, items, reportIndex) ==
    IF items = <<>> THEN itemHistory
    ELSE LET item == Head(items)
             key == DetailKey(item)
             isDefectNow == itemHasDefect(item.status, item.notes)
             updated ==
                IF key \in DOMAIN itemHistory
                THEN [itemHistory EXCEPT ![key] =
                        [@ EXCEPT !.status = item.status,
                                  !.notes = item.notes,
                                  !.lastSeenReportIndex = reportIndex,
                                  !.hadDefectEver =
                                      IF isDefectNow /\ ~@ THEN TRUE ELSE @]]
                ELSE itemHistory @@
                     (key :> [category |-> item.category,
                              status |-> item.status,
                              notes |-> item.notes,
                              description |-> item.description,
                              firstSeenReportIndex |-> reportIndex,
                              lastSeenReportIndex |-> reportIndex,
                              hadDefectEver |-> isDefectNow])
         IN  DetailUpdateHistory(updated, Tail(items), reportIndex)

\* itemHistory after the loop has folded reports 1..n
RECURSIVE DetailItemHistory(_, _)
DetailItemHistory(apartmentIdFilter, n) ==
    IF n = 0 THEN EmptyMap
    ELSE DetailUpdateHistory(DetailItemHistory(apartmentIdFilter, n - 1),
                             DetailItems(ProcessedReports[n], apartmentIdFilter),
                             n - 1)

\* itemsInThisReport of report n
DetailItemsInReport(apartmentIdFilter, n) ==
    LET items == DetailItems(ProcessedReports[n], apartmentIdFilter)
    IN  {DetailKey(items[j]) : j \in 1..Len(items)}

\* categoriesEverSeen after reports 1..n
DetailCategoriesEverSeen(apartmentIdFilter, n) ==
    UNION {LET items == DetailItems(ProcessedReports[i], apartmentIdFilter)
           IN  {items[j].category : j \in 1..Len(items)} : i \in 1..n}

\* variant: the count is taken over the history, not over the report
DetailCategoryDefectsCumulative(apartmentIdFilter, n) ==
    LET itemHistory == DetailItemHistory(apartmentIdFilter, n)
        defects == {k \in DOMAIN itemHistory : itemHistory[k].hadDefectEver}
    IN  [cat \in {itemHistory[k].category : k \in defects} |->
            Cardinality({k \in defects : itemHistory[k].category = cat})]

\* categoryDefectCounts of report n: only categories with a defect have a key
DetailCategoryDefects(apartmentIdFilter, n) ==
    LET items == DetailItems(ProcessedReports[n], apartmentIdFilter)
        defects == {j \in 1..Len(items) : itemHasDefect(items[j].status, items[j].notes)}
    IN  [cat \in {items[j].category : j \in defects} |->
            Cardinality({j \in defects : items[j].category = cat})]

\* variant: the timeline never treats an item as seen for the first time
DetailTimelineItemProgressNeverFirst(history, isInCurrentReport, reportIndex) ==
    IF isInCurrentReport
    THEN calculateItemProgressV3(history.status, history.notes, FALSE).progress
    ELSE PROGRESS_THRESHOLDS.ITEM_FIXED

\* variant: the first-time test is inverted
DetailTimelineItemProgressInverted(history, isInCurrentReport, reportIndex) ==
    IF isInCurrentReport
    THEN calculateItemProgressV3(history.status, history.notes,
                                 history.firstSeenReportIndex # reportIndex).progress
    ELSE PROGRESS_THRESHOLDS.ITEM_FIXED

\* the score of one history entry inside the timeline loop
DetailTimelineItemProgress(history, isInCurrentReport, reportIndex) ==
    IF isInCurrentReport
    THEN calculateItemProgressV3(history.status, history.notes,
                                 history.firstSeenReportIndex = reportIndex).progress
    ELSE PROGRESS_THRESHOLDS.ITEM_FIXED

\* the score the timeline gives item k as of report n
DetailItemScore(apartmentIdFilter, n, k) ==
    DetailTimelineItemProgress(DetailItemHistory(apartmentIdFilter, n)[k],
                               k \in DetailItemsInReport(apartmentIdFilter, n),
                               n - 1)

\* Math.round of the mean of the scores of the keys in ks
AverageProgress(itemProgress, ks) ==
    MathRound(Sum(itemProgress, ks), Cardinality(ks))

\* the progressHistory entry pushed for report n (when itemHistory.size > 0)
DetailProgressEntry(apartmentIdFilter, n) ==
    LET itemHistory == DetailItemHistory(apartmentIdFilter, n)
        itemsInThisReport == DetailItemsInReport(apartmentIdFilter, n)
        itemProgress ==
            [itemKey \in DOMAIN itemHistory |->
                DetailTimelineItemProgress(itemHistory[itemKey],
                                           itemKey \in itemsInThisReport, n - 1)]
        issueKeys ==
            {itemKey \in DOMAIN itemHistory :
                /\ itemKey \in itemsInThisReport
                /\ itemHasDefect(itemHistory[itemKey].status, itemHistory[itemKey].notes)}
        cats == {itemHistory[k].category : k \in DOMAIN itemHistory}
        catProgress ==
            [cat \in cats |->
                AverageProgress(itemProgress,
                                {k \in DOMAIN itemHistory : itemHistory[k].category = cat})]
    IN  [progress |-> calculateOverallProgressWithAllCategories(
                          catProgress, DetailCategoriesEverSeen(apartmentIdFilter, n)),
         categoryProgress |-> catProgress,
         issues |-> Cardinality(issueKeys),
         itemCount |-> Cardinality(DOMAIN itemHistory)]

\* the report numbers that have a progressHistory entry
DetailProgressHistoryReports(apartmentIdFilter) ==
    {n \in 1..Len(ProcessedReports) : DOMAIN DetailItemHistory(apartmentIdFilter, n) # {}}

\* latestReportItemKeys
DetailLatestReportItemKeys(apartmentIdFilter, n) ==
    IF n > 0 THEN DetailItemsInReport(apartmentIdFilter, n) ELSE {}

\* variant: an absent item keeps the score of its last-known status
calculateEffectiveProgressByStatus(item, latestReportItemKeys, lastReportIndex) ==
    calculateItemProgressV3(item.status, item.notes,
                            item.firstSeenReportIndex = lastReportIndex).progress

\* calculateEffectiveProgress(item) with the two variables it closes over
calculateEffectiveProgress(item, latestReportItemKeys, lastReportIndex) ==
    IF DetailKey(item) \in latestReportItemKeys
    THEN calculateItemProgressV3(item.status, item.notes,
                                 item.firstSeenReportIndex = lastReportIndex).progress
    ELSE PROGRESS_THRESHOLDS.ITEM_FIXED

\* the cumulative block and detailedProgress of the response
DetailCurrent(apartmentIdFilter, n) ==
    LET itemHistory == DetailItemHistory(apartmentIdFilter, n)
        latestReportItemKeys == DetailLatestReportItemKeys(apartmentIdFilter, n)
        allItems == DOMAIN itemHistory
        itemProgress ==
            [k \in allItems |->
                calculateEffectiveProgress(itemHistory[k], latestReportItemKeys, n - 1)]
        cats == {itemHistory[k].category : k \in allItems}
        catProgress ==
            [cat \in cats |->
                AverageProgress(itemProgress,
                                {k \in allItems : itemHistory[k].category = cat})]
        completed ==
            {k \in allItems :
                k \notin latestReportItemKeys
                \/ itemIsCompleted(itemHistory[k].status, itemHistory[k].notes)}
        currentDefects ==
            {k \in allItems :
                /\ k \in latestReportItemKeys
                /\ itemHasDefect(itemHistory[k].status, itemHistory[k].notes)}
        inProgress ==
            {k \in allItems :
                /\ k \in latestReportItemKeys
                /\ ~itemIsCompleted(itemHistory[k].status, itemHistory[k].notes)
                /\ ~itemHasDefect(itemHistory[k].status, itemHistory[k].notes)}
    IN  [progress |-> calculateOverallProgressWithAllCategories(
                          catProgress, DetailCategoriesEverSeen(apartmentIdFilter, n)),
         categoryProgress |-> catProgress,
         itemCount |-> Cardinality(allItems),
         completedItems |-> completed,
         defectItems |-> {k \in allItems : itemHistory[k].hadDefectEver},
         currentDefectItems |-> currentDefects,
         inProgressItems |-> inProgress]

(***************************************************************************)
(* GET /api/stats: project statistics, on processed reports 1..n           *)
(***************************************************************************)
\* item.apartment?.number || 'פיתוח'
StatsAptNumber(item) ==
    IF item.apartmentId # NULL /\ (\E a \in apartments : a.id = item.apartmentId)
    THEN (CHOOSE a \in apartments : a.id = item.apartmentId).number
    ELSE "פיתוח"

\* `${aptNumber}|${item.category}|${item.description}`
StatsKey(item) ==
    StatsAptNumber(item) \o "|" \o item.category \o "|" \o item.description

\* itemsInLatestReport
StatsItemsInLatestReport(n) ==
    LET items == ProcessedReports[n].workItems
    IN  {StatsKey(items[j]) : j \in 1..Len(items)}

\* the history update of one report's items, in order
RECURSIVE StatsUpdateHistory(_, _, _, _)
StatsUpdateHistory(itemHistory, items, reportIndex, itemsInLatestReport) ==
    IF items = <<>> THEN itemHistory
    ELSE LET item == Head(items)
             key == StatsKey(item)
             isDefectNow == itemHasDefect(item.status, item.notes)
             updated ==
                IF key \in DOMAIN itemHistory
                THEN [itemHistory EXCEPT ![key] =
                        [@ EXCEPT !.status = item.status,
                                  !.notes = item.notes,
                                  !.lastSeenReportIndex = reportIndex,
                                  !.isInLatestReport = key \in itemsInLatestReport,
                                  !.hadDefectEver =
                                      IF isDefectNow /\ ~@ THEN TRUE ELSE @]]
                ELSE itemHistory @@
                     (key :> [category |-> item.category,
                              status |-> item.status,
                              notes |-> item.notes,
                              description |-> item.description,
                              apartmentNumber |-> StatsAptNumber(item),
                              firstSeenReportIndex |-> reportIndex,
                              lastSeenReportIndex |-> reportIndex,
                              isInLatestReport |-> key \in itemsInLatestReport,
                              hadDefectEver |-> isDefectNow])
         IN  StatsUpdateHistory(updated, Tail(items), reportIndex, itemsInLatestReport)

\* itemHistory after folding reports 1..m, the latest report being report n
RECURSIVE StatsItemHistory(_, _)
StatsItemHistory(m, n) ==
    IF m = 0 THEN EmptyMap
    ELSE StatsUpdateHistory(StatsItemHistory(m - 1, n),
                            ProcessedReports[m].workItems,
                            m - 1,
                            StatsItemsInLatestReport(n))

\* categoriesEverSeen
StatsCategoriesEverSeen(n) ==
    UNION {LET items == ProcessedReports[i].workItems
           IN  {items[j].category : j \in 1..Len(items)} : i \in 1..n}

\* apartmentCategoriesEverSeen.get(aptNumber)
StatsApartmentCategoriesEverSeen(aptNumber, n) ==
    UNION {LET items == ProcessedReports[i].workItems
           IN  {items[j].category :
                  j \in {x \in 1..Len(items) : StatsAptNumber(items[x]) = aptNumber}} :
           i \in 1..n}

\* calculateEffectiveProgress(item) of the stats route
StatsCalculateEffectiveProgress(item, latestReportIndex) ==
    IF item.isInLatestReport
    THEN calculateItemProgressV3(item.status, item.notes,
                                 item.firstSeenReportIndex = latestReportIndex).progress
    ELSE PROGRESS_THRESHOLDS.ITEM_FIXED

\* the project-wide figures of the response (zero reports: the empty answer)
StatsProject(n) ==
    IF n = 0
    THEN [overallProgress |-> 0, categoryProgress |-> EmptyMap,
          currentIssues |-> 0, cumulativeIssues |-> 0, itemCount |-> 0]
    ELSE
    LET itemHistory == StatsItemHistory(n, n)
        allItems == DOMAIN itemHistory
        itemProgress ==
            [k \in allItems |-> StatsCalculateEffectiveProgress(itemHistory[k], n - 1)]
        cats == {itemHistory[k].category : k \in allItems}
        categoryProgress ==
            [cat \in cats |->
                AverageProgress(itemProgress,
                                {k \in allItems : itemHistory[k].category = cat})]
    IN  [overallProgress |-> calculateOverallProgressWithAllCategories(
                                 categoryProgress, StatsCategoriesEverSeen(n)),
         categoryProgress |-> categoryProgress,
         currentIssues |->
            Cardinality({k \in allItems :
                /\ itemHistory[k].isInLatestReport
                /\ itemHasDefect(itemHistory[k].status, itemHistory[k].notes)}),
         cumulativeIssues |-> Cardinality({k \in allItems : itemHistory[k].hadDefectEver}),
         itemCount |-> Cardinality(allItems)]

\* the item lists of the response, as sets of keys (n >= 1)
StatsLists(n) ==
    LET itemHistory == StatsItemHistory(n, n)
        allItems == DOMAIN itemHistory
    IN  [allCompletedItems |->
            {k \in allItems :
                \/ ~itemHistory[k].isInLatestReport
                \/ itemIsCompleted(itemHistory[k].status, itemHistory[k].notes)},
         allDefectItems |-> {k \in allItems : itemHistory[k].hadDefectEver},
         allCurrentDefectItems |->
            {k \in allItems :
                /\ itemHistory[k].isInLatestReport
                /\ itemHasDefect(itemHistory[k].status, itemHistory[k].notes)},
         allInProgressItems |->
            {k \in allItems :
                /\ itemHistory[k].isInLatestReport
                /\ ~itemIsCompleted(itemHistory[k].status, itemHistory[k].notes)
                /\ ~itemHasDefect(itemHistory[k].status, itemHistory[k].notes)}]

\* the scope numbers that get an apartmentStats entry: every apartment and
\* the development bucket, when the scope has an item
StatsScopes(n) ==
    IF n = 0 THEN {}
    ELSE {num \in {a.number : a \in apartments} \cup {"פיתוח"} :
            \E k \in DOMAIN StatsItemHistory(n, n) :
                StatsItemHistory(n, n)[k].apartmentNumber = num}

\* one apartmentStats entry
StatsApartment(aptNumber, n) ==
    LET itemHistory == StatsItemHistory(n, n)
        aptItems == {k \in DOMAIN itemHistory : itemHistory[k].apartmentNumber = aptNumber}
        itemProgress ==
            [k \in aptItems |-> StatsCalculateEffectiveProgress(itemHistory[k], n - 1)]
        cats == {itemHistory[k].category : k \in aptItems}
        aptCatProgress ==
            [cat \in cats |->
                AverageProgress(itemProgress,
                                {k \in aptItems : itemHistory[k].category = cat})]
    IN  [progress |-> calculateOverallProgressWithAllCategories(
                          aptCatProgress, StatsApartmentCategoriesEverSeen(aptNumber, n)),
         categoryProgress |-> aptCatProgress,
         issues |-> Cardinality({k \in aptItems : itemHistory[k].hadDefectEver}),
         currentIssues |->
            Cardinality({k \in aptItems :
                /\ itemHistory[k].isInLatestReport
                /\ itemHasDefect(itemHistory[k].status, itemHistory[k].notes)}),
         itemCount |-> Cardinality(aptItems)]

(***************************************************************************)
(* GET /api/apartments: apartments list, on processed reports 1..n         *)
(***************************************************************************)
\* `${item.category}|${item.description}`
ListKey(item) == item.category \o "|" \o item.description

\* latestItemsByApartment.get(aptId) || new Set()
ListLatestItems(aptId, n) ==
    LET items == ProcessedReports[n].workItems
    IN  {ListKey(items[j]) : j \in {x \in 1..Len(items) : items[x].apartmentId = aptId}}

\* the update of apartmentHistory.get(aptId) by one report's items, in
\* order; items of other apartments and development items go elsewhere
RECURSIVE ListUpdateHistory(_, _, _, _)
ListUpdateHistory(history, items, aptId, reportIndex) ==
    IF items = <<>> THEN history
    ELSE LET item == Head(items)
             key == ListKey(item)
             isDefectNow == itemHasDefect(item.status, item.notes)
             updated ==
                IF item.apartmentId = NULL \/ item.apartmentId # aptId
                THEN history
                ELSE IF key \in DOMAIN history
                THEN [history EXCEPT ![key] =
                        [@ EXCEPT !.status = item.status,
                                  !.notes = item.notes,
                                  !.lastSeenReportIndex = reportIndex,
                                  !.hadDefectEver = IF isDefectNow THEN TRUE ELSE @]]
                ELSE history @@
                     (key :> [category |-> item.category,
                              status |-> item.status,
                              notes |-> item.notes,
                              lastSeenReportIndex |-> reportIndex,
                              hadDefectEver |-> isDefectNow])
         IN  ListUpdateHistory(updated, Tail(items), aptId, reportIndex)

\* apartmentHistory.get(aptId) after folding reports 1..n
RECURSIVE ListHistory(_, _)
ListHistory(aptId, n) ==
    IF n = 0 THEN EmptyMap
    ELSE ListUpdateHistory(ListHistory(aptId, n - 1),
                           ProcessedReports[n].workItems, aptId, n - 1)

\* apartmentCategoriesSeen.get(aptId)
ListCategoriesSeen(aptId, n) ==
    UNION {LET items == ProcessedReports[i].workItems
           IN  {items[j].category :
                  j \in {x \in 1..Len(items) : items[x].apartmentId = aptId}} :
           i \in 1..n}

\* one apartmentData entry (n > 0)
ListApartment(aptId, n) ==
    LET history == ListHistory(aptId, n)
        latestItems == ListLatestItems(aptId, n)
        itemProgress ==
            [key \in DOMAIN history |->
                IF key \in latestItems
                THEN calculateItemProgressV3(history[key].status, history[key].notes,
                                             FALSE).progress
                ELSE PROGRESS_THRESHOLDS.ITEM_FIXED]
        cats == {history[k].category : k \in DOMAIN history}
        catProgress ==
            [cat \in cats |->
                AverageProgress(itemProgress,
                                {k \in DOMAIN history : history[k].category = cat})]
    IN  IF DOMAIN history = {}
        THEN [progress |-> 0, issues |-> 0, itemCount |-> 0]
        ELSE [progress |-> calculateOverallProgressWithAllCategories(
                               catProgress, ListCategoriesSeen(aptId, n)),
              issues |-> Cardinality({k \in DOMAIN history : history[k].hadDefectEver}),
              itemCount |-> Cardinality(DOMAIN history)]

(***************************************************************************)
(* GET /api/timeline: project timeline, project-wide part                  *)
(***************************************************************************)
\* `${item.category}|${item.description}`
TimelineKey(item) == item.category \o "|" \o item.description

\* itemsInThisReport of report n
TimelineItemsInReport(n) ==
    LET items == ProcessedReports[n].workItems
    IN  {TimelineKey(items[j]) : j \in 1..Len(items)}

\* the update of projectItemHistory by one report's items, in order
RECURSIVE TimelineUpdateProjectHistory(_, _, _)
TimelineUpdateProjectHistory(projectItemHistory, items, reportIndex) ==
    IF items = <<>> THEN projectItemHistory
    ELSE LET item == Head(items)
             key == TimelineKey(item)
             isDefect == isNegativeStatus(item.status) \/ hasNegativeNotes(item.notes)
             updated ==
                IF key \in DOMAIN projectItemHistory
                THEN [projectItemHistory EXCEPT ![key] =
                        [@ EXCEPT !.status = item.status,
                                  !.notes = item.notes,
                                  !.lastSeenReportIndex = reportIndex,
                                  !.hadDefect = IF isDefect THEN TRUE ELSE @]]
                ELSE projectItemHistory @@
                     (key :> [category |-> item.category,
                              status |-> item.status,
                              notes |-> item.notes,
                              firstSeenReportIndex |-> reportIndex,
                              lastSeenReportIndex |-> reportIndex,
                              hadDefect |-> isDefect])
         IN  TimelineUpdateProjectHistory(updated, Tail(items), reportIndex)

\* projectItemHistory after folding reports 1..n
RECURSIVE TimelineProjectHistory(_)
TimelineProjectHistory(n) ==
    IF n = 0 THEN EmptyMap
    ELSE TimelineUpdateProjectHistory(TimelineProjectHistory(n - 1),
                                      ProcessedReports[n].workItems, n - 1)

\* projectCategoriesEverSeen after reports 1..n
TimelineProjectCategoriesEverSeen(n) ==
    UNION {LET items == ProcessedReports[i].workItems
           IN  {items[j].category : j \in 1..Len(items)} : i \in 1..n}

\* the project-wide fields of the timelineData entry pushed for report n
TimelineProjectEntry(n) ==
    LET projectItemHistory == TimelineProjectHistory(n)
        itemsInThisReport == TimelineItemsInReport(n)
        itemProgress ==
            [itemKey \in DOMAIN projectItemHistory |->
                IF itemKey \in itemsInThisReport
                THEN calculateItemProgressV3(
                         projectItemHistory[itemKey].status,
                         projectItemHistory[itemKey].notes,
                         projectItemHistory[itemKey].firstSeenReportIndex = n - 1).progress
                ELSE PROGRESS_THRESHOLDS.ITEM_FIXED]
        issueKeys ==
            {itemKey \in DOMAIN projectItemHistory :
                /\ itemKey \in itemsInThisReport
                /\ (isNegativeStatus(projectItemHistory[itemKey].status)
                    \/ hasNegativeNotes(projectItemHistory[itemKey].notes))}
        cats == {projectItemHistory[k].category : k \in DOMAIN projectItemHistory}
        projectCatProgress ==
            [cat \in cats |->
                AverageProgress(itemProgress,
                    {k \in DOMAIN projectItemHistory : projectItemHistory[k].category = cat})]
    IN  [overallProgress |-> calculateOverallProgressWithAllCategories(
                                 projectCatProgress, TimelineProjectCategoriesEverSeen(n)),
         categoryProgress |-> projectCatProgress,
         totalIssues |-> Cardinality(issueKeys),
         totalItems |-> Cardinality(DOMAIN projectItemHistory)]

(***************************************************************************)
(* Inputs and the two specifications                                       *)
(***************************************************************************)
\* a saved configuration: ELECTRICAL 22, PLUMBING 0 (the weights still sum
\* to 100), CATEGORY_GRADUATED 80, ITEM_FIXED 85, COMPLETED_OK_FIRST 80
\* (above COMPLETED_OK_LATER: a warning, not an error)
ConfigA ==
    [DEFAULT_CONFIG EXCEPT
        !.categoryWeights = [@ EXCEPT !["ELECTRICAL"] = 22, !["PLUMBING"] = 0],
        !.progressThresholds = [@ EXCEPT !.CATEGORY_GRADUATED = 80,
                                         !.ITEM_FIXED = 85,
                                         !.COMPLETED_OK_FIRST = 80]]

\* a configuration whose weights do not sum to 100
ConfigInvalid ==
    [DEFAULT_CONFIG EXCEPT !.categoryWeights = [@ EXCEPT !["ELECTRICAL"] = 50]]

PostedConfigs == {ConfigA, ConfigInvalid}

Descriptions == {"נקודת חשמל"}

\* one logical item followed through the reports, every status and notes
ItemNumbers == {"1"}
ItemCategories == {"חשמל"}
ItemStatuses ==
    {"בוצע", "תקין", "לא תקין", "ליקוי", "בטיפול", "טופל", "ממתין", "לא התחיל"}
ItemNotes == {""} \cup NoteTexts

\* several scopes and categories, two statuses
ScopeNumbers == {"1", "3"}
ScopeCategories == {"חשמל", "אינסטלציה"}
ScopeStatuses == {"תקין", "לא התחיל"}
ScopeNotes == {""}

Init ==
    /\ apartments = {}
    /\ reports = <<>>
    /\ configFile = NoFile
    /\ cachedConfig = NullConfig
    /\ uploads = [u \in UploadIds |-> IdleUpload]
    /\ snapshots = <<>>
    /\ pdfDir = {}
    /\ nextReportId = 1
    /\ argument = NULL
    /\ result = NoResult
    /\ processing = IdleProcessing

SaveConfig == \E config \in PostedConfigs : PostConfig(config)

CreateReport == ProcessPdfCreateReport(MaxScopeReports)

CreateApartmentItem ==
    ProcessPdfApartmentItem(ScopeNumbers, ScopeCategories, Descriptions,
                            ScopeStatuses, ScopeNotes, MaxScopeItems)

CreateDevelopmentItem ==
    ProcessPdfDevelopmentItem(ScopeCategories, Descriptions,
                              ScopeStatuses, ScopeNotes, MaxScopeItems)

Next ==
    \/ ensureProjectAndApartments
    \/ CreateReport
    \/ CreateApartmentItem
    \/ CreateDevelopmentItem
    \/ ProcessPdfMarkProcessed
    \/ SaveConfig
    \/ GetConfig

Spec == Init /\ [][Next]_vars

CreateItemReport == ProcessPdfCreateReport(MaxReports)

CreateItemRecord ==
    ProcessPdfApartmentItem(ItemNumbers, ItemCategories, Descriptions,
                            ItemStatuses, ItemNotes, MaxItems)

NextItem ==
    \/ ensureProjectAndApartments
    \/ CreateItemReport
    \/ CreateItemRecord
    \/ ProcessPdfMarkProcessed
    \/ SaveConfig
    \/ GetConfig

SpecItem == Init /\ [][NextItem]_vars

\* a saved configuration whose COMPLETED_OK_FIRST is below IN_PROGRESS (no
\* ordering check of validateConfig relates the two)
ConfigLowFirst ==
    [DEFAULT_CONFIG EXCEPT !.progressThresholds = [@ EXCEPT !.COMPLETED_OK_FIRST = 20]]

\* a saved configuration whose IN_PROGRESS is above COMPLETED_OK_LATER
\* (DEFECT_WORK_DONE <= IN_PROGRESS is a warning, not an error)
ConfigMisordered ==
    [DEFAULT_CONFIG EXCEPT !.progressThresholds = [@ EXCEPT !.IN_PROGRESS = 80]]

SeqPostedConfigs == {ConfigLowFirst, ConfigMisordered}

\* one logical item reported over four reports with the statuses of the
\* sequence NOT_STARTED, IN_PROGRESS, COMPLETED, COMPLETED_OK
MaxSeqReports == 4
SeqStatuses == {"לא התחיל", "בטיפול", "בוצע", "תקין"}
SeqNotes == {"", "תקין"}

SaveSeqConfig == \E config \in SeqPostedConfigs : PostConfig(config)

CreateSeqReport == ProcessPdfCreateReport(MaxSeqReports)

CreateSeqRecord ==
    ProcessPdfApartmentItem(ItemNumbers, ItemCategories, Descriptions,
                            SeqStatuses, SeqNotes, MaxItems)

NextSeq ==
    \/ ensureProjectAndApartments
    \/ CreateSeqReport
    \/ CreateSeqRecord
    \/ ProcessPdfMarkProcessed
    \/ SaveSeqConfig
    \/ PutConfigReset
    \/ GetConfig

SpecSeq == Init /\ [][NextSeq]_vars

Request ==
    \E u \in UploadIds, fileName \in UploadFiles, force \in BOOLEAN :
        UploadRequest(u, fileName, force)

SaveFile == \E u \in UploadIds : UploadSaveFile(u)

Extract == \E u \in UploadIds : UploadExtract(u, ExtractedDocuments)

CreateUploadReport == \E u \in UploadIds : UploadCreateReport(u)

WriteItem == \E u \in UploadIds : UploadWriteItem(u)

WriteTracking == \E u \in UploadIds : UploadWriteTracking(u)

MarkProcessed == \E u \in UploadIds : UploadMarkProcessed(u)

Rollback == \E snapshotId \in 1..Len(snapshots) : RestoreSnapshot(snapshotId)

NextUpload ==
    \/ Request
    \/ SaveFile
    \/ Extract
    \/ CreateUploadReport
    \/ WriteItem
    \/ WriteTracking
    \/ MarkProcessed
    \/ Rollback

SpecUpload == Init /\ [][NextUpload]_vars

\* the upload route serving one request at a time, and rollbacks between
\* the requests
SerialRequest ==
    \E fileName \in UploadFiles, force \in BOOLEAN : UploadRequest(1, fileName, force)

SerialExtract == UploadExtract(1, ExtractedDocuments)

SerialRollback ==
    /\ uploads[1].pc = "idle"
    /\ \E snapshotId \in 1..Len(snapshots) : RestoreSnapshot(snapshotId)

NextSerial ==
    \/ SerialRequest
    \/ UploadSaveFile(1)
    \/ SerialExtract
    \/ UploadCreateReport(1)
    \/ UploadWriteItem(1)
    \/ UploadWriteTracking(1)
    \/ UploadMarkProcessed(1)
    \/ SerialRollback

SpecSerial == Init /\ [][NextSerial]_vars

\* the ingestion script run again and again over the files of data/pdfs
BeginProcessPdf == \E fileName \in UploadFiles : ProcessPdfBegin(fileName)

NextScript ==
    \/ ensureProjectAndApartments
    \/ BeginProcessPdf
    \/ ProcessPdfWriteItem
    \/ ProcessPdfWriteTracking
    \/ ProcessPdfFail
    \/ ProcessPdfEnd

SpecScript == Init /\ [][NextScript]_vars

\* raw status texts made of two table keys, as the reports write them
\* ("done, discrepancies found")
HeadKeys == {"בוצע", "תקין", "טופל", "ליקוי", "בטיפול", "הושלם"}
TailKeys ==
    {"תקין", "לא תקין", "נמצא ליקוי", "נמצאו אי תאומים", "יש הערות",
     "בוצע חלקי", "נדרש מעקב"}
Separators == {", ", " - "}

RawStatuses ==
    {head \o sep \o tail : head \in HeadKeys, sep \in Separators, tail \in TailKeys}

\* a call of the two status normalizers on one raw status
InitStatus ==
    /\ apartments = {}
    /\ reports = <<>>
    /\ configFile = NoFile
    /\ cachedConfig = NullConfig
    /\ uploads = [u \in UploadIds |-> IdleUpload]
    /\ snapshots = <<>>
    /\ pdfDir = {}
    /\ nextReportId = 1
    /\ argument \in RawStatuses
    /\ result = NoResult
    /\ processing = IdleProcessing

NormalizeRawStatus ==
    /\ result = NoResult
    /\ result' = [returned |-> TRUE,
                  statusMapper |-> normalizeStatus(argument),
                  upload |-> UploadNormalizeStatus(argument, NULL)]
    /\ UNCHANGED <<apartments, reports, configFile, cachedConfig, uploadVars, argument, processing>>

NextStatus == NormalizeRawStatus

SpecStatus == InitStatus /\ [][NextStatus]_vars

\* the inputs of the item scorers: every status code and one string that
\* is none, notes with and without keywords, both values of isFirstTimeSeen
ScoreStatuses == WorkStatus \cup {"ON_HOLD"}
ScoreNotes == {NULL, "", "תקין", "לא תקין", "חסר ברז"}

\* a call of the two item scorers on one item, nothing saved in the
\* configuration file
InitScore ==
    /\ apartments = {}
    /\ reports = <<>>
    /\ configFile = NoFile
    /\ cachedConfig = NullConfig
    /\ uploads = [u \in UploadIds |-> IdleUpload]
    /\ snapshots = <<>>
    /\ pdfDir = {}
    /\ nextReportId = 1
    /\ argument \in [status : ScoreStatuses, notes : ScoreNotes, isFirstTimeSeen : BOOLEAN]
    /\ result = NoResult
    /\ processing = IdleProcessing

ScoreItem ==
    /\ result = NoResult
    /\ result' = [returned |-> TRUE,
                  v3 |-> calculateItemProgressV3(argument.status, argument.notes,
                                                 argument.isFirstTimeSeen),
                  v2 |-> calculateItemProgressV2(argument.status, argument.notes,
                                                 argument.isFirstTimeSeen)]
    /\ UNCHANGED <<apartments, reports, configFile, cachedConfig, uploadVars, argument, processing>>

NextScore == ScoreItem

SpecScore == InitScore /\ [][NextScore]_vars

\* a body whose categoryWeights names two categories only (they sum to 100)
ConfigPartialWeights ==
    [DEFAULT_CONFIG EXCEPT !.categoryWeights = ("FLOORING" :> 60 @@ "ELECTRICAL" :> 40)]

\* a body with all ten categories and a changed maximum
ConfigMax ==
    [DEFAULT_CONFIG EXCEPT !.maxProgress = 100]

\* a body whose baseline is not below its maximum
ConfigBaselineAboveMax ==
    [DEFAULT_CONFIG EXCEPT !.baselineProgress = 95]

\* a body with an eleventh category, taken from the weight of OTHER
ConfigExtraCategory ==
    [DEFAULT_CONFIG EXCEPT
        !.categoryWeights = [@ EXCEPT !["OTHER"] = 5] @@ ("WINDOWS" :> 10)]

AdminPostedConfigs ==
    {ConfigA, ConfigInvalid, ConfigLowFirst, ConfigMisordered,
     ConfigPartialWeights, ConfigMax, ConfigBaselineAboveMax, ConfigExtraCategory}

\* validateConfig(loadConfig()), as the admin page's GET does it; the
\* result keeps what was loaded and whether a file was there
ValidateLoadedConfig ==
    /\ result' = [returned |-> TRUE,
                  fileExists |-> configFile # NoFile,
                  config |-> loadConfig,
                  validation |-> validateConfig(loadConfig)]
    /\ UNCHANGED <<apartments, reports, configFile, cachedConfig, uploadVars, argument, processing>>

SaveAdminConfig == \E config \in AdminPostedConfigs : PostConfig(config)

NextConfig ==
    \/ SaveAdminConfig
    \/ PutConfigReset
    \/ GetConfig
    \/ ValidateLoadedConfig

SpecConfig == Init /\ [][NextConfig]_vars

\* the items of one category handed to calculateCategoryProgress
MaxCategoryItems == 3
CategoryItemStatuses == {"NOT_STARTED", "IN_PROGRESS", "COMPLETED", "COMPLETED_OK"}
CategoryItemNotes == {NULL, "לא תקין"}

CategoryItems ==
    [category : {"ELECTRICAL"}, status : CategoryItemStatuses, notes : CategoryItemNotes]

CategoryItemLists ==
    UNION {[1..n -> CategoryItems] : n \in 0..MaxCategoryItems}

\* items.map(i => items[order[i]]): the list in another order
Reordered(items, order) == [i \in 1..Len(items) |-> items[order[i]]]

InitCategory ==
    /\ apartments = {}
    /\ reports = <<>>
    /\ configFile = NoFile
    /\ cachedConfig = NullConfig
    /\ uploads = [u \in UploadIds |-> IdleUpload]
    /\ snapshots = <<>>
    /\ pdfDir = {}
    /\ nextReportId = 1
    /\ argument \in CategoryItemLists
    /\ result = NoResult
    /\ processing = IdleProcessing

\* calculateCategoryProgress on the list and on one reordering of it
AggregateCategory ==
    /\ result = NoResult
    /\ \E order \in Permutations(1..Len(argument)) :
          result' = [returned |-> TRUE,
                     order |-> order,
                     listed |-> calculateCategoryProgress(argument),
                     reordered |-> calculateCategoryProgress(Reordered(argument, order))]
    /\ UNCHANGED <<apartments, reports, configFile, cachedConfig, uploadVars, argument, processing>>

NextCategory == AggregateCategory

SpecCategory == InitCategory /\ [][NextCategory]_vars

(***************************************************************************)
(* Properties                                                              *)
(***************************************************************************)
\* the number of processed reports
LastN == Len(ProcessedReports)

\* C1: a logical item that appeared in an earlier report and is absent from
\* the latest report scores ITEM_FIXED, whatever its last-known status and
\* notes, in the apartment detail route and in the project statistics route;
\* a category made of such items only has ITEM_FIXED as its progress.
C1_AbsentItemScoresItemFixed ==
    /\ \A f \in ApartmentFilters :
          LET h == DetailItemHistory(f, LastN)
              latest == DetailLatestReportItemKeys(f, LastN)
          IN  /\ \A k \in DOMAIN h :
                    k \notin latest =>
                        calculateEffectiveProgress(h[k], latest, LastN - 1)
                            = PROGRESS_THRESHOLDS.ITEM_FIXED
              /\ \A cat \in DOMAIN DetailCurrent(f, LastN).categoryProgress :
                    (\A k \in DOMAIN h : h[k].category = cat => k \notin latest)
                        => DetailCurrent(f, LastN).categoryProgress[cat]
                               = PROGRESS_THRESHOLDS.ITEM_FIXED
    /\ LastN > 0 =>
          \A k \in DOMAIN StatsItemHistory(LastN, LastN) :
              LET item == StatsItemHistory(LastN, LastN)[k]
              IN  ~item.isInLatestReport =>
                      StatsCalculateEffectiveProgress(item, LastN - 1)
                          = PROGRESS_THRESHOLDS.ITEM_FIXED

\* C1 witness: an item last reported NOT_STARTED is absent from the latest
\* report and its category shows ITEM_FIXED
C1_Witness ==
    \E f \in ApartmentFilters :
        LET h == DetailItemHistory(f, LastN)
        IN  \E k \in DOMAIN h :
               /\ k \notin DetailLatestReportItemKeys(f, LastN)
               /\ h[k].status = "NOT_STARTED"
               /\ DetailCurrent(f, LastN).categoryProgress[h[k].category]
                      = PROGRESS_THRESHOLDS.ITEM_FIXED

\* C2: in the apartment timeline, an item whose status is COMPLETED and whose
\* notes hold neither a verification nor a negative keyword scores
\* COMPLETED_OK_FIRST as of the report in which it first appears,
\* COMPLETED_OK_LATER as of a later report in which it appears, and ITEM_FIXED
\* as of a report from which it is absent.
C2_CompletedFirstLaterFixed ==
    \A f \in ApartmentFilters : \A n \in 1..LastN :
        LET h == DetailItemHistory(f, n)
            present == DetailItemsInReport(f, n)
        IN  \A k \in DOMAIN h :
               (/\ h[k].status = "COMPLETED"
                /\ ~isVerified(h[k].notes)
                /\ ~hasNegativeNotes(h[k].notes))
               => LET score == DetailTimelineItemProgress(h[k], k \in present, n - 1)
                  IN  /\ (k \in present /\ h[k].firstSeenReportIndex = n - 1)
                            => score = getProgressThresholds.COMPLETED_OK_FIRST
                      /\ (k \in present /\ h[k].firstSeenReportIndex < n - 1)
                            => score = getProgressThresholds.COMPLETED_OK_LATER
                      /\ k \notin present
                            => score = PROGRESS_THRESHOLDS.ITEM_FIXED

\* C2 witness: under the defaults the one item of apartment 1 is COMPLETED
\* in reports 1 and 2 and absent from report 3; the timeline shows 50, 75, 90
C2_Witness ==
    /\ LastN = 3
    /\ getConfig = DEFAULT_CONFIG
    /\ \E f \in ApartmentFilters :
          /\ \E k \in DOMAIN DetailItemHistory(f, 1) :
                /\ DetailItemHistory(f, 1)[k].status = "COMPLETED"
                /\ DetailItemHistory(f, 1)[k].notes = NULL
                /\ DetailItemHistory(f, 2)[k].status = "COMPLETED"
                /\ DetailItemHistory(f, 2)[k].notes = NULL
                /\ k \in DetailItemsInReport(f, 2)
                /\ k \notin DetailItemsInReport(f, 3)
          /\ DetailProgressEntry(f, 1).progress = 50
          /\ DetailProgressEntry(f, 2).progress = 75
          /\ DetailProgressEntry(f, 3).progress = 90

\* C3: in the folds of the apartment detail, project statistics and
\* apartments list routes, a logical item whose hadDefectEver flag is true
\* after report n still has it true after report n + 1, whether that report
\* lists the item as clean or does not list it at all.
C3_HadDefectEverMonotonic ==
    \A n \in 1..(LastN - 1) :
        /\ \A f \in ApartmentFilters :
              \A k \in DOMAIN DetailItemHistory(f, n) :
                  DetailItemHistory(f, n)[k].hadDefectEver
                      => /\ k \in DOMAIN DetailItemHistory(f, n + 1)
                         /\ DetailItemHistory(f, n + 1)[k].hadDefectEver
        /\ \A k \in DOMAIN StatsItemHistory(n, LastN) :
              StatsItemHistory(n, LastN)[k].hadDefectEver
                  => /\ k \in DOMAIN StatsItemHistory(n + 1, LastN)
                     /\ StatsItemHistory(n + 1, LastN)[k].hadDefectEver
        /\ \A a \in apartments :
              \A k \in DOMAIN ListHistory(a.id, n) :
                  ListHistory(a.id, n)[k].hadDefectEver
                      => /\ k \in DOMAIN ListHistory(a.id, n + 1)
                         /\ ListHistory(a.id, n + 1)[k].hadDefectEver

\* C3 witness: an item with a defect in report 1 is clean (positive status,
\* no notes) in report 2 and absent from report 3; the flag is still true
C3_Witness ==
    /\ LastN = 3
    /\ \E f \in ApartmentFilters :
          \E k \in DOMAIN DetailItemHistory(f, 1) :
              /\ DetailItemHistory(f, 1)[k].hadDefectEver
              /\ k \in DetailItemsInReport(f, 2)
              /\ DetailItemHistory(f, 2)[k].status = "COMPLETED_OK"
              /\ DetailItemHistory(f, 2)[k].notes = NULL
              /\ DetailItemHistory(f, 2)[k].hadDefectEver
              /\ k \notin DetailItemsInReport(f, 3)
              /\ DetailItemHistory(f, 3)[k].hadDefectEver
              /\ k \in DetailCurrent(f, 3).defectItems

\* C4 as stated: for every logical item and every two consecutive reports,
\* the item's score as of the later report is at least its score as of the
\* earlier report.
C4_ScoreMonotonic ==
    \A f \in ApartmentFilters : \A n \in 1..(LastN - 1) :
        \A k \in DOMAIN DetailItemHistory(f, n) :
            DetailItemScore(f, n + 1, k) >= DetailItemScore(f, n, k)

\* C4, amended: from one report to the next the score of a logical item does
\* not decrease (a) when both reports list it with the same status and notes
\* and the configuration has COMPLETED_OK_LATER >= COMPLETED_OK_FIRST, and
\* (b) when the later report does not list it and no threshold of the
\* configuration exceeds the ITEM_FIXED value the routes use.
C4_ScoreMonotonicWhenUnchangedOrAbsent ==
    \A f \in ApartmentFilters : \A n \in 1..(LastN - 1) :
        LET before == DetailItemHistory(f, n)
            after == DetailItemHistory(f, n + 1)
            ordered == getProgressThresholds.COMPLETED_OK_LATER
                           >= getProgressThresholds.COMPLETED_OK_FIRST
            capped == \A t \in DOMAIN getProgressThresholds :
                          getProgressThresholds[t] <= PROGRESS_THRESHOLDS.ITEM_FIXED
        IN  \A k \in DOMAIN before :
               /\ (/\ k \in DetailItemsInReport(f, n)
                   /\ k \in DetailItemsInReport(f, n + 1)
                   /\ after[k].status = before[k].status
                   /\ after[k].notes = before[k].notes
                   /\ ordered)
                  => DetailItemScore(f, n + 1, k) >= DetailItemScore(f, n, k)
               /\ (k \notin DetailItemsInReport(f, n + 1) /\ capped)
                  => DetailItemScore(f, n + 1, k) >= DetailItemScore(f, n, k)

\* C4 witness: an item IN_PROGRESS in reports 1 and 2 and absent from
\* report 3 scores 30, 30, 90 under the defaults
C4_Witness ==
    /\ LastN = 3
    /\ getConfig = DEFAULT_CONFIG
    /\ \E f \in ApartmentFilters :
          \E k \in DOMAIN DetailItemHistory(f, 1) :
              /\ DetailItemHistory(f, 1)[k].status = "IN_PROGRESS"
              /\ k \in DetailItemsInReport(f, 2)
              /\ DetailItemHistory(f, 2)[k].status = "IN_PROGRESS"
              /\ DetailItemHistory(f, 2)[k].notes = DetailItemHistory(f, 1)[k].notes
              /\ k \notin DetailItemsInReport(f, 3)
              /\ DetailItemScore(f, 1, k) = 30
              /\ DetailItemScore(f, 2, k) = 30
              /\ DetailItemScore(f, 3, k) = 90

\* the latest report lists an item of this category for this scope
HasLatestItem(f, cat) ==
    \E j \in 1..Len(DetailItems(ProcessedReports[LastN], f)) :
        DetailItems(ProcessedReports[LastN], f)[j].category = cat

\* C5 as stated: in the apartment, development and project aggregates, a
\* category observed in a past report of the scope and without an item in
\* the latest report contributes the CATEGORY_GRADUATED threshold of the
\* configuration in effect to the weighted average.
C5_GraduatedCategoryContribution ==
    LastN > 0 =>
        /\ \A f \in ApartmentFilters :
              \A cat \in DetailCategoriesEverSeen(f, LastN) :
                  ~HasLatestItem(f, cat) =>
                      CategoryContribution(DetailCurrent(f, LastN).categoryProgress, cat)
                          = getProgressThresholds.CATEGORY_GRADUATED
        /\ \A cat \in StatsCategoriesEverSeen(LastN) :
              (\A j \in 1..Len(ProcessedReports[LastN].workItems) :
                   ProcessedReports[LastN].workItems[j].category # cat)
                  => CategoryContribution(StatsProject(LastN).categoryProgress, cat)
                         = getProgressThresholds.CATEGORY_GRADUATED

\* C6: a scope whose categoriesEverSeen is the single category A has A's
\* progress as its overall progress (0 when A's weight is 0), whatever
\* weights are configured for the other categories; no category outside
\* categoriesEverSeen enters the average.
C6_NeverSeenCategoriesIgnored ==
    \A f \in ApartmentFilters :
        LET seen == DetailCategoriesEverSeen(f, LastN)
            current == DetailCurrent(f, LastN)
        IN  Cardinality(seen) = 1 =>
               \A cat \in seen :
                   /\ cat \in DOMAIN current.categoryProgress
                   /\ current.progress =
                         IF WeightOf(cat) = 0 THEN 0 ELSE current.categoryProgress[cat]

\* C6 witness: with the saved weights in effect (ELECTRICAL 22, PLUMBING 0)
\* an apartment that only ever had ELECTRICAL items, now NOT_STARTED, is at 5
C6_Witness ==
    /\ getConfig # DEFAULT_CONFIG
    /\ \E f \in ApartmentFilters :
          /\ DetailCategoriesEverSeen(f, LastN) = {"ELECTRICAL"}
          /\ DetailCurrent(f, LastN).categoryProgress["ELECTRICAL"] = 5
          /\ DetailCurrent(f, LastN).progress = 5

\* categoryWeights[cat] ?? defaultCategoryWeight
ConfiguredWeight(category) ==
    IF category \in DOMAIN getCategoryWeights
    THEN getCategoryWeights[category]
    ELSE getConfigSafe.defaultCategoryWeight

\* the weighted mean over the categories ever seen, each with its configured
\* weight
ConfiguredWeightedMean(currentCategoryProgress, categoriesEverSeen) ==
    LET weight == [category \in categoriesEverSeen |-> ConfiguredWeight(category)]
        term == [category \in categoriesEverSeen |->
                    CategoryContribution(currentCategoryProgress, category)
                        * weight[category]]
        totalWeight == Sum(weight, categoriesEverSeen)
    IN  IF categoriesEverSeen = {} \/ totalWeight = 0 THEN 0
        ELSE MathRound(Sum(term, categoriesEverSeen), totalWeight)

\* C7 as stated: every scope's overall progress is the mean of its
\* categories weighted by their configured weights, a configured weight of 0
\* included; defaultCategoryWeight serves only categories without one.
C7_ConfiguredWeightRespected ==
    \A f \in ApartmentFilters :
        DetailCurrent(f, LastN).progress =
            ConfiguredWeightedMean(DetailCurrent(f, LastN).categoryProgress,
                                   DetailCategoriesEverSeen(f, LastN))

\* C8 as stated: every timeline entry equals the current-state computation
\* on the reports up to that entry: overall progress, per-category progress
\* and issue count, for the apartment detail timeline against the apartment
\* detail figures and for the project timeline against the project
\* statistics.
C8_TimelineEqualsCurrentState ==
    /\ \A f \in ApartmentFilters : \A n \in DetailProgressHistoryReports(f) :
          /\ DetailProgressEntry(f, n).progress = DetailCurrent(f, n).progress
          /\ DetailProgressEntry(f, n).categoryProgress
                 = DetailCurrent(f, n).categoryProgress
          /\ DetailProgressEntry(f, n).issues
                 = Cardinality(DetailCurrent(f, n).currentDefectItems)
    /\ \A n \in 1..LastN :
          /\ TimelineProjectEntry(n).overallProgress = StatsProject(n).overallProgress
          /\ TimelineProjectEntry(n).categoryProgress = StatsProject(n).categoryProgress
          /\ TimelineProjectEntry(n).totalIssues = StatsProject(n).currentIssues

\* the work-item records of processed report n
RecordsOf(n) ==
    {ProcessedReports[n].workItems[j] : j \in 1..Len(ProcessedReports[n].workItems)}

\* C9 as stated: the defect count of a report and category is the number of
\* that report's records of the category whose effective status is negative.
C9_DefectCountByEffectiveStatus ==
    \A f \in ApartmentFilters : \A n \in 1..LastN :
        LET items == DetailItems(ProcessedReports[n], f)
            counts == DetailCategoryDefects(f, n)
        IN  \A cat \in {items[j].category : j \in 1..Len(items)} :
               (IF cat \in DOMAIN counts THEN counts[cat] ELSE 0)
                   = Cardinality({j \in 1..Len(items) :
                        /\ items[j].category = cat
                        /\ isNegativeStatus(getEffectiveStatus(items[j].status,
                                                               items[j].notes))})

\* C9, amended: the defect count of a report and category is the number of
\* that report's own records of the category (none carried over from earlier
\* reports) whose status is negative or whose notes hold a negative keyword;
\* a category without such a record has no count.
C9_DefectCountByStatusOrNotes ==
    \A f \in ApartmentFilters : \A n \in 1..LastN :
        LET ws == ProcessedReports[n].workItems
            mine == {j \in 1..Len(ws) : ws[j].apartmentId = f}
            bad == {j \in mine : ws[j].status \in {"NOT_OK", "DEFECT"}
                                 \/ hasNegativeNotes(ws[j].notes)}
            counts == DetailCategoryDefects(f, n)
        IN  /\ DOMAIN counts = {ws[j].category : j \in bad}
            /\ \A cat \in DOMAIN counts :
                  counts[cat] = Cardinality({j \in bad : ws[j].category = cat})

\* C9 witness: report 1 lists the item with a defect, report 2 lists it
\* IN_PROGRESS with negative notes, report 3 lists it clean: the counts are
\* 1, 1 and none
C9_Witness ==
    /\ LastN = 3
    /\ \E f \in ApartmentFilters :
          /\ \E j \in 1..Len(DetailItems(ProcessedReports[2], f)) :
                /\ DetailItems(ProcessedReports[2], f)[j].status = "IN_PROGRESS"
                /\ hasNegativeNotes(DetailItems(ProcessedReports[2], f)[j].notes)
          /\ DetailCategoryDefects(f, 1) = ("ELECTRICAL" :> 1)
          /\ DetailCategoryDefects(f, 2) = ("ELECTRICAL" :> 1)
          /\ Len(DetailItems(ProcessedReports[3], f)) = 1
          /\ DetailCategoryDefects(f, 3) = EmptyMap

\* two records name the same logical item
SameLogicalItem(r1, r2) ==
    /\ r1.apartmentId = r2.apartmentId
    /\ r1.category = r2.category
    /\ r1.description = r2.description

\* C10 as stated: in the per-apartment and development histories, the
\* project statistics history and the project timeline history, two records
\* fall under one key exactly when they agree on scope, category and
\* description; each history has one entry per logical item.
C10_MergedIffSameLogicalItem ==
    LET all == UNION {RecordsOf(n) : n \in 1..LastN}
    IN  /\ \A r1, r2 \in all :
              /\ (StatsKey(r1) = StatsKey(r2)) <=> SameLogicalItem(r1, r2)
              /\ r1.apartmentId = r2.apartmentId
                    => ((DetailKey(r1) = DetailKey(r2)) <=> SameLogicalItem(r1, r2))
              /\ (TimelineKey(r1) = TimelineKey(r2)) <=> SameLogicalItem(r1, r2)
        /\ LastN > 0 =>
              TimelineProjectEntry(LastN).totalItems = StatsProject(LastN).itemCount

\* every stored work item, of every report row
StoredItems ==
    UNION {{reports[i].workItems[j] : j \in 1..Len(reports[i].workItems)} :
              i \in 1..Len(reports)}

\* C11: in every ingestion path a work item whose status text or notes
\* contain a defect keyword is stored with status DEFECT, and the status
\* text 'בוצע, נמצאו אי תאומים' is normalized to DEFECT by each path's
\* normalizer.
C11_DefectKeywordStoredAsDefect ==
    /\ \A item \in StoredItems :
          (item.notes # NULL /\ ContainsDefectKeyword(item.notes))
              => item.status = "DEFECT"
    /\ UploadNormalizeStatus("בוצע, נמצאו אי תאומים", NULL) = "DEFECT"
    /\ normalizeStatus("בוצע, נמצאו אי תאומים") = "DEFECT"

\* the effective status is DEFECT: raw DEFECT, or a positive status whose
\* notes hold a negative keyword
EffectivelyDefect(status, notes) ==
    \/ status = "DEFECT"
    \/ /\ status \in {"COMPLETED", "COMPLETED_OK", "HANDLED"}
       /\ hasNegativeNotes(notes)

StatusSequence == <<"NOT_STARTED", "IN_PROGRESS", "COMPLETED", "COMPLETED_OK">>

\* item k of scope f is listed in each of the first n reports, with the
\* statuses of the sequence and notes without negative keywords
FollowsSequence(f, k, n) ==
    /\ n <= Len(StatusSequence)
    /\ \A i \in 1..n :
          /\ k \in DetailItemsInReport(f, i)
          /\ DetailItemHistory(f, i)[k].status = StatusSequence[i]
          /\ ~hasNegativeNotes(DetailItemHistory(f, i)[k].notes)

\* the thresholds the sequence goes through, in order
SequenceThresholdsOrdered(t) ==
    /\ t.NOT_STARTED <= t.IN_PROGRESS
    /\ t.IN_PROGRESS <= t.COMPLETED_OK_LATER
    /\ t.COMPLETED_OK_LATER <= t.VERIFIED_NO_DEFECTS

\* C13 as stated: for an item whose status over successive reports follows
\* NOT_STARTED, IN_PROGRESS, COMPLETED, COMPLETED_OK (no negative notes), the
\* timeline's per-item scores, computed with the thresholds of the
\* configuration in effect, never decrease from a report to the next.
C13_SequenceScoresNonDecreasing ==
    \A f \in ApartmentFilters : \A n \in 2..LastN :
        \A k \in DOMAIN DetailItemHistory(f, n) :
            FollowsSequence(f, k, n) =>
                DetailItemScore(f, n - 1, k) <= DetailItemScore(f, n, k)

\* C13 amended: the scores never decrease when the thresholds in effect
\* satisfy NOT_STARTED <= IN_PROGRESS <= COMPLETED_OK_LATER <=
\* VERIFIED_NO_DEFECTS.
C13_SequenceScoresNonDecreasingWhenOrdered ==
    SequenceThresholdsOrdered(getProgressThresholds) =>
        \A f \in ApartmentFilters : \A n \in 2..LastN :
            \A k \in DOMAIN DetailItemHistory(f, n) :
                FollowsSequence(f, k, n) =>
                    DetailItemScore(f, n - 1, k) <= DetailItemScore(f, n, k)

\* C13 witness: the whole sequence has been reported under a saved
\* configuration with ordered thresholds, and the scores are 5, 30, 75, 90
C13_Witness ==
    /\ cachedConfig = ConfigLowFirst
    /\ LastN = 4
    /\ \E f \in ApartmentFilters : \E k \in DOMAIN DetailItemHistory(f, 4) :
          /\ FollowsSequence(f, k, 4)
          /\ <<DetailItemScore(f, 1, k), DetailItemScore(f, 2, k),
               DetailItemScore(f, 3, k), DetailItemScore(f, 4, k)>> = <<5, 30, 75, 90>>

\* an upload request is still writing the row with this id
UploadRunning(reportId) ==
    \E u \in UploadIds : uploads[u].pc = "items" /\ uploads[u].reportId = reportId

\* the row has every work item and inspection of its extraction
RowComplete(row) ==
    /\ Len(row.workItems) =
          Cardinality({i \in 1..Len(row.rawExtraction.workItems) :
              row.rawExtraction.workItems[i].apartmentNumber \in APARTMENTS \cup {NULL}})
    /\ Cardinality(row.inspections) =
          Cardinality({[apartmentNumber |-> x.apartmentNumber, category |-> x.category] :
              x \in {row.rawExtraction.progressTracking[i] :
                        i \in 1..Len(row.rawExtraction.progressTracking)}})

\* C14: once an upload attempt has ended, by success or by failure, the
\* store holds its report row with all the work items and inspections of
\* the extraction, or no row of that report.
C14_UploadAtomic ==
    \A i \in 1..Len(reports) :
        ~UploadRunning(reports[i].id) => RowComplete(reports[i])

\* C15: for every upload that wrote report data, restoring the snapshot it
\* returned gives back the reports, work items and inspections stored just
\* before its first write.
C15_RestoreGivesStateBeforeUpload ==
    \A snapshotId \in 1..Len(snapshots) :
        snapshots[snapshotId].wrote =>
            RestoredRows(snapshots[snapshotId].data, 1) = snapshots[snapshotId].before

\* C16: a save request whose configuration has a validation error writes
\* no configuration file and neither changes nor clears the cache; the
\* configuration that scoring reads (getConfig) stays the same.
C16_InvalidSaveChangesNothing ==
    [][\A config \in PostedConfigs :
          (~validateConfig(config).valid /\ PostConfig(config)) =>
              /\ configFile' = configFile
              /\ cachedConfig' = cachedConfig
              /\ getConfig' = getConfig]_vars

\* C16 witness: a saved configuration is cached and in use when a request
\* with an invalid configuration arrives
C16_Witness ==
    /\ cachedConfig = ConfigA
    /\ \E config \in PostedConfigs :
          /\ validateConfig(config).errors # {}
          /\ ENABLED PostConfig(config)

\* C17: a successful save (POST with a valid configuration, or the reset)
\* makes the next getConfig return the saved configuration, and after any
\* step getConfig returns what loadConfig reads from the file: the cache
\* never holds a configuration older than the last successful save.
C17_CacheServesLastSave ==
    [][/\ \A config \in SeqPostedConfigs :
             (validateConfig(config).valid /\ PostConfig(config)) => getConfig' = config
       /\ PutConfigReset => getConfig' = DEFAULT_CONFIG
       /\ getConfig' = loadConfig']_vars

\* C17 witness: a configuration saved while another one was cached has been
\* read through the cache
C17_Witness ==
    /\ configFile = ConfigMisordered
    /\ cachedConfig = ConfigMisordered
    /\ reports # <<>>

\* C18: for every work item of an extraction that passed
\* validateExtractedData and is being ingested, the status normalizer and
\* the category normalizer return a value (neither throws).
C18_NormalizationNeverThrows ==
    \A u \in UploadIds :
        (uploads[u].pc \in {"validated", "items"}
            /\ validateExtractedData(uploads[u].data).valid) =>
            \A i \in 1..Len(uploads[u].data.workItems) :
                ~NormalizationThrows(uploads[u].data.workItems[i])

\* the sets a, b, c partition the set all
Partition(all, a, b, c) ==
    /\ a \cup b \cup c = all
    /\ a \cap b = {}
    /\ a \cap c = {}
    /\ b \cap c = {}

\* C19 as stated: in the apartment detail (every scope) and in the project
\* statistics, the completed, defect and in-progress lists of the response
\* partition the logical items, an item absent from the latest report being
\* in the completed list.
C19_ListsPartitionItems ==
    LastN > 0 =>
        /\ \A f \in ApartmentFilters :
              LET c == DetailCurrent(f, LastN)
                  all == DOMAIN DetailItemHistory(f, LastN)
              IN  /\ Partition(all, c.completedItems, c.defectItems, c.inProgressItems)
                  /\ all \ DetailLatestReportItemKeys(f, LastN) \subseteq c.completedItems
        /\ LET l == StatsLists(LastN)
               all == DOMAIN StatsItemHistory(LastN, LastN)
           IN  Partition(all, l.allCompletedItems, l.allDefectItems, l.allInProgressItems)

\* C19 amended: the completed, current-defect and in-progress lists
\* partition the logical items, an item absent from the latest report being
\* in the completed list (the defect list is cumulative).
C19_CurrentListsPartitionItems ==
    LastN > 0 =>
        /\ \A f \in ApartmentFilters :
              LET c == DetailCurrent(f, LastN)
                  all == DOMAIN DetailItemHistory(f, LastN)
              IN  /\ Partition(all, c.completedItems, c.currentDefectItems,
                               c.inProgressItems)
                  /\ all \ DetailLatestReportItemKeys(f, LastN) \subseteq c.completedItems
        /\ LET l == StatsLists(LastN)
               all == DOMAIN StatsItemHistory(LastN, LastN)
           IN  /\ Partition(all, l.allCompletedItems, l.allCurrentDefectItems,
                            l.allInProgressItems)
               /\ \A k \in all :
                      ~StatsItemHistory(LastN, LastN)[k].isInLatestReport
                          => k \in l.allCompletedItems

\* C19 witness: an item that had a defect and is absent from the latest
\* report is in the completed list and in the cumulative defect list, and in
\* neither the current-defect nor the in-progress list
C19_Witness ==
    /\ LastN > 1
    /\ \E f \in ApartmentFilters :
          LET c == DetailCurrent(f, LastN)
          IN  \E k \in DOMAIN DetailItemHistory(f, LastN) :
                 /\ k \notin DetailLatestReportItemKeys(f, LastN)
                 /\ k \in c.completedItems \cap c.defectItems
                 /\ k \notin c.currentDefectItems \cup c.inProgressItems

\* the statuses of the keys of the table that the text contains and that
\* are as long as the longest such key
LongestContainedKeyStatuses(table, text) ==
    LET contained == {i \in 1..Len(table) : Includes(text, table[i][1])}
    IN  {table[i][2] : i \in {j \in contained :
                                 \A k \in contained : Len(table[j][1]) >= Len(table[k][1])}}

HasExactKey(table, text) == \E i \in 1..Len(table) : table[i][1] = text

\* the upload route's substring pass is reached: no defect keyword, no
\* partial keyword, no exact key
UploadSubstringPass(text) ==
    /\ ~ContainsDefectKeyword(text)
    /\ ~\E keyword \in PARTIAL_KEYWORDS : Includes(toLowerCase(trim(text)), keyword)
    /\ ~HasExactKey(UploadHebrewStatusMap, trim(text))

\* C20: when the raw status has no exact key in the status table, each
\* normalizer's substring pass returns the status of the longest table key
\* that the raw status contains.
C20_LongestKeyWins ==
    result # NoResult =>
        /\ (~HasExactKey(hebrewStatusMap, trim(argument))
              /\ LongestContainedKeyStatuses(hebrewStatusMap, trim(argument)) # {})
              => result.statusMapper
                     \in LongestContainedKeyStatuses(hebrewStatusMap, trim(argument))
        /\ (UploadSubstringPass(argument)
              /\ LongestContainedKeyStatuses(UploadHebrewStatusMap, trim(argument)) # {})
              => result.upload
                     \in LongestContainedKeyStatuses(UploadHebrewStatusMap, trim(argument))

\* C21: for every status, notes and isFirstTimeSeen, and the same
\* threshold values, calculateItemProgressV3 returns the progress that
\* calculateItemProgressV2 returns.
C21_V3EqualsV2 ==
    result # NoResult => result.v3.progress = result.v2.progress

\* C22: with no configuration saved, loadConfig returns the defaults and
\* validateConfig of them is valid with zero errors.
C22_DefaultsValidate ==
    (result # NoResult /\ ~result.fileExists) =>
        /\ result.config = DEFAULT_CONFIG
        /\ result.validation.valid
        /\ result.validation.errors = {}

\* the defaults were loaded and validated before any save
C22_Witness ==
    /\ result # NoResult
    /\ ~result.fileExists
    /\ configFile = NoFile
    /\ result.validation = validateConfig(DEFAULT_CONFIG)

\* C25: after any successful save, the saved file as loadConfig reads it
\* back (merged over the defaults) passes validateConfig with zero
\* errors, and its category weights sum to 100.
C25_LoadedConfigValidates ==
    (result # NoResult /\ result.fileExists) =>
        /\ result.validation.valid
        /\ result.validation.errors = {}
        /\ SumValues(result.config.categoryWeights) = 100

\* C23: for any list of items of one category, calculateCategoryProgress
\* of every permutation of the list gives the same category progress (and
\* the same counts).
C23_CategoryProgressOrderIndependent ==
    result # NoResult => result.reordered = result.listed

\* three items with different scores were aggregated in reversed order
C23_Witness ==
    /\ result # NoResult
    /\ Len(argument) = 3
    /\ argument[1].status = "NOT_STARTED"
    /\ argument[2].status = "IN_PROGRESS"
    /\ argument[3].status = "COMPLETED_OK"
    /\ argument[3].notes = NULL
    /\ result.order = [i \in 1..3 |-> 4 - i]
    /\ result.listed.progress = 42

\* C24: once a configuration has been saved, every route scores an item
\* that is absent from the latest report with the ITEM_FIXED value of the
\* configuration in force (the saved one), as it scores present items with
\* the saved thresholds.
C24_AbsentItemScoresSavedItemFixed ==
    configFile # NoFile =>
        /\ \A f \in ApartmentFilters :
              LET h == DetailItemHistory(f, LastN)
                  latest == DetailLatestReportItemKeys(f, LastN)
              IN  \A k \in DOMAIN h :
                      k \notin latest =>
                          /\ calculateEffectiveProgress(h[k], latest, LastN - 1)
                                 = getProgressThresholds.ITEM_FIXED
                          /\ DetailItemScore(f, LastN, k)
                                 = getProgressThresholds.ITEM_FIXED
        /\ LastN > 0 =>
              \A k \in DOMAIN StatsItemHistory(LastN, LastN) :
                  LET item == StatsItemHistory(LastN, LastN)[k]
                  IN  ~item.isInLatestReport =>
                          StatsCalculateEffectiveProgress(item, LastN - 1)
                              = getProgressThresholds.ITEM_FIXED

\* C26: for the same processed reports and the same apartment, the
\* apartments list, the apartment detail and the project statistics give
\* the same overall progress of that apartment.
C26_SameApartmentProgressEverywhere ==
    LastN > 0 =>
        \A a \in apartments :
            a.number \in StatsScopes(LastN) =>
                /\ ListApartment(a.id, LastN).progress
                       = DetailCurrent(a.id, LastN).progress
                /\ DetailCurrent(a.id, LastN).progress
                       = StatsApartment(a.number, LastN).progress

\* C27: under every interleaving of upload requests, no step removes from
\* the PDF directory a file that a stored, processed report refers to.
C27_FailureKeepsStoredReportsFile ==
    [][\A fileName \in pdfDir \ pdfDir' :
          ~\E i \in 1..Len(reports) :
              /\ reports[i].fileName = fileName
              /\ reports[i].processed]_vars

\* C28: a report that is marked processed has every work item and
\* inspection of its extraction, so the processed reports, which are all
\* the dashboards read, hold no partially ingested report.
C28_ProcessedReportsAreComplete ==
    \A i \in 1..Len(ProcessedReports) : RowComplete(ProcessedReports[i])

\* the work items of the row's extraction that processPdf stores (those of
\* a known apartment and the development items)
StorableItems(row) ==
    {i \in 1..Len(row.rawExtraction.workItems) :
        row.rawExtraction.workItems[i].apartmentNumber \in APARTMENTS \cup {NULL}}

\* C29: however often processPdf runs for a file, its report holds each
\* work item of the extraction at most once; a run on a processed file
\* writes nothing.
C29_ItemsStoredAtMostOnce ==
    \A i \in 1..Len(reports) :
        Len(reports[i].workItems) <= Cardinality(StorableItems(reports[i]))

\* C30: with one request at a time, an upload that is answered 409 at the
\* duplicate checks, or 400 or 202 after the extraction, leaves the
\* reports with their work items and inspections, and the files of
\* data/pdfs, as they were when the request arrived.
C30_RejectedUploadChangesNothing ==
    [][/\ \A fileName \in UploadFiles, force \in BOOLEAN :
             (UploadRequest(1, fileName, force) /\ uploads'[1].pc = "idle") =>
                 /\ reports' = reports
                 /\ pdfDir' = pdfDir
       /\ (uploads[1].pc = "saved" /\ uploads'[1].pc = "idle") =>
             /\ reports' = RestoredRows(snapshots[uploads[1].snapshotId].data, 1)
             /\ pdfDir' = snapshots[uploads[1].snapshotId].files]_vars

====
